---- MODULE Spec2Model ----
(***************************************************************************)
(* Onboarding data flow of the personal diet tracker.                      *)
(*                                                                         *)
(* The repository holds two revisions of the multi-step OnboardingFlow     *)
(* component and two revisions of the /api/n8n/onboarding proxy route:     *)
(*   impl  = "draft" : src/unnamed/part_006 (per-step validation, draft    *)
(*                     kept in localStorage, one user_profiles upsert)     *)
(*   impl  = "plain" : src/src/components/auth/OnboardingFlow.tsx (no      *)
(*                     draft, profile + goals + preferences upserts)       *)
(*   route = "strict": src/src/pages/api/n8n/onboarding.ts                 *)
(*   route = "forward": src/unnamed/part_013                               *)
(* Both are modelled; Init picks the pair.                                 *)
(***************************************************************************)
EXTENDS Integers, Sequences, FiniteSets, TLC

VARIABLES
    impl,        \* which OnboardingFlow revision is mounted
    route,       \* which /api/n8n/onboarding revision is deployed
    user,        \* useAuth().user: TRUE when a user is signed in
    form,        \* react-hook-form values, one entry per (flattened) field
    allergyText, \* text shown in the "Other Allergies" <Input>
    errors,      \* fields that currently carry a validation error
    step,        \* useState(1): current step index
    isSubmitting,\* useState(false)
    storage,     \* localStorage: keys onboardingFormData and onboardingStep
    subs,        \* one record per onSubmit invocation (async continuation)
    view,        \* "onboarding" until router.push('/dashboard') has run
    edits,       \* number of field edits so far (bounded)
    reloads      \* number of page reloads so far (bounded)

\* The database behind the profile and goal forms.
VARIABLES
    profilesKey,   \* primary key of user_profiles: "id" or "user_id"
    user_profiles, \* rows of table user_profiles
    user_goals,    \* rows of table user_goals
    session,       \* per browser session: signed-in user and position
    lastWrite,     \* the write request answered last
    writes         \* number of write requests so far (bounded)

\* A component that shows the goals and follows their changes.
VARIABLES
    comp,      \* which subscribing component is observed
    authUser,  \* useAuth().user?.id of that component's session
    goalsRow,  \* the committed user_goals row of the user, or NoRow
    mounted,   \* the component is mounted
    fetches,   \* one record per fetch the effect started
    chans,     \* one record per channel the effect opened
    inbox,     \* notifications sent to the open channel, not yet delivered
    local,     \* the goals the component holds in its state
    commits,   \* number of commits so far (bounded)
    delivered, \* number of notifications that arrived on the open channel
    dropped    \* number of notifications that arrived on a closed channel

\* One request to a proxy endpoint (an API route).
VARIABLES
    preq,      \* the request: endpoint, method, truthy body keys, env
    ppc,       \* position of the handler
    pres,      \* the response: status and the details object of a 400
    chatRows,  \* rows this request inserted into chat_interactions
    hookCalls, \* requests it sent to the external workflow
    downFail   \* a workflow call or a database write of it has failed

\* The meal logger.
VARIABLES
    hookRev,    \* revision of useMealLogging: "plain" or "auth" (part_009)
    logRev,     \* revision of logMeal: "db" (inserts, then POST) or "post"
    mealUser,   \* TRUE when a user is signed in
    foodItems,  \* the foodItems field array of the form
    isLogging,  \* useState(false) of useMealLogging
    mealPc,     \* the request of logMeal that is awaited, or "idle"
    payload,    \* the food items of the submission in flight
    traffic,    \* database writes and HTTP requests issued so far
    rejected,   \* the submissions validation has rejected
    mealOps,    \* number of form edits so far (bounded)
    mealRows    \* meal_logs rows, each with the number of its
                \* meal_food_items rows

\* The goal-setting form.
VARIABLES
    disabledProp,   \* whether the Save button's disabled prop takes effect
    goalUser,       \* TRUE when a user is signed in
    goalForm,       \* the values of the form's five fields
    goalDefaults,   \* the values of the last reset (isDirty compares to them)
    goalErrors,     \* formState.errors: field |-> issue code
    isSavingGoals,  \* useState(false) of GoalSetting
    goalData,       \* the data of the upsert in flight
    goalWrites,     \* the upserts issued to user_goals so far
    goalOps         \* number of form edits so far (bounded)

\* The profile form, the App shell's start-up, the chat widget and the
\* login form, each held as one record.
VARIABLES
    profile,    \* UserProfile / onboarding work hours and the stored row
    boot,       \* App: session, onboarding-status check and loading flag
    chat,       \* ChatBot: messages, input, isProcessing, sends in flight
    login       \* LoginForm: submission, signIn outcome, messages

flowVars == <<impl, route, user, form, allergyText, errors, step,
              isSubmitting, storage, subs, view, edits, reloads>>

dbVars == <<profilesKey, user_profiles, user_goals, session, lastWrite,
            writes>>

syncVars == <<comp, authUser, goalsRow, mounted, fetches, chans, inbox,
              local, commits, delivered, dropped>>

\* Everything but the onboarding flow.
proxyVars == <<preq, ppc, pres, chatRows, hookCalls, downFail>>

mealVars == <<hookRev, logRev, mealUser, foodItems, isLogging, mealPc,
              payload, traffic, rejected, mealOps, mealRows>>

goalVars == <<disabledProp, goalUser, goalForm, goalDefaults, goalErrors,
              isSavingGoals, goalData, goalWrites, goalOps>>

moreVars == <<profile, boot, chat, login>>

restVars == <<dbVars, syncVars, proxyVars, mealVars, goalVars, moreVars>>

\* What each part leaves alone.
notDb == <<flowVars, syncVars, proxyVars, mealVars, goalVars, moreVars>>
notSync == <<flowVars, dbVars, proxyVars, mealVars, goalVars, moreVars>>
notProxy == <<flowVars, dbVars, syncVars, mealVars, goalVars, moreVars>>
notMeal == <<flowVars, dbVars, syncVars, proxyVars, goalVars, moreVars>>
notGoal == <<flowVars, dbVars, syncVars, proxyVars, mealVars, moreVars>>
notProfile == <<flowVars, dbVars, syncVars, proxyVars, mealVars, goalVars,
                boot, chat, login>>
notAuth == <<flowVars, dbVars, syncVars, proxyVars, mealVars, goalVars,
             profile, chat>>
notChat == <<flowVars, dbVars, syncVars, proxyVars, mealVars, goalVars,
             profile, boot, login>>

vars == <<flowVars, restVars>>

(***************************************************************************)
(* Bounds of the model.                                                    *)
(***************************************************************************)
MaxEdits == 1
MaxSubmits == 2
MaxReloads == 1

(***************************************************************************)
(* JavaScript values held by form fields.                                  *)
(***************************************************************************)
Undef == [t |-> "undef", n |-> 0, s |-> "", a |-> <<>>]
NaN == [t |-> "nan", n |-> 0, s |-> "", a |-> <<>>]
Null == [t |-> "null", n |-> 0, s |-> "", a |-> <<>>]
Absent == [t |-> "absent", n |-> 0, s |-> "", a |-> <<>>]
Num(k) == [t |-> "num", n |-> k, s |-> "", a |-> <<>>]
Str(x) == [t |-> "str", n |-> 0, s |-> x, a |-> <<>>]
Arr(xs) == [t |-> "arr", n |-> 0, s |-> "", a |-> xs]

(***************************************************************************)
(* The fields of the onboarding form.  The nested objects workHours and    *)
(* preferredMealTimes are flattened to their members.                      *)
(***************************************************************************)
Step1Shown == {"fullName", "age", "gender", "profession", "workHours.start",
               "workHours.end", "workHours.days", "heightCm", "weightKg",
               "activityLevel"}
Step2Shown == {"dietaryRestrictions", "allergies", "customAllergies",
               "medicalConditions", "preferredMealTimes.breakfast",
               "preferredMealTimes.lunch", "preferredMealTimes.dinner",
               "fitnessLevel", "preferredWorkoutDays"}
Step3Shown == {"goal", "targetWeight", "targetDate", "weeklyWorkoutGoal",
               "waterIntakeGoal", "sleepGoal", "mealPrepPreference"}
Fields == Step1Shown \cup Step2Shown \cup Step3Shown

\* Members of nested objects: restored together with their parent object.
NestedFields == {"workHours.start", "workHours.end", "workHours.days",
                 "preferredMealTimes.breakfast", "preferredMealTimes.lunch",
                 "preferredMealTimes.dinner"}

\* Inputs the plain revision does not render.
DraftOnlyFields == {"profession", "workHours.start", "workHours.end",
                    "workHours.days", "customAllergies"}

ShownAt(s) == IF s = 1 THEN Step1Shown ELSE IF s = 2 THEN Step2Shown ELSE Step3Shown

\* useForm({defaultValues}) of either revision.
defaultValues(i) ==
    [f \in Fields |->
        CASE f \in {"dietaryRestrictions", "allergies", "medicalConditions",
                    "preferredWorkoutDays"} -> Arr(<<>>)
          [] f \in {"workHours.start", "workHours.end"} ->
                IF i = "draft" THEN Str("") ELSE Undef
          [] f = "workHours.days" -> IF i = "draft" THEN Arr(<<>>) ELSE Undef
          [] f = "weeklyWorkoutGoal" -> Num(3)
          [] f = "waterIntakeGoal" -> Num(2)
          [] f = "sleepGoal" -> Num(8)
          [] f = "mealPrepPreference" -> Str("daily")
          [] OTHER -> Undef]

(***************************************************************************)
(* Zod schemas.                                                            *)
(***************************************************************************)
Letters == {"a", "b", "c", "d", "e", "f", "g", "h", "i", "j", "k", "l", "m",
            "n", "o", "p", "q", "r", "s", "t", "u", "v", "w", "x", "y", "z",
            "A", "B", "C", "D", "E", "F", "G", "H", "I", "J", "K", "L", "M",
            "N", "O", "P", "Q", "R", "S", "T", "U", "V", "W", "X", "Y", "Z"}
\* /^[a-zA-Z\s-']+$/
NameRegex(x) ==
    /\ Len(x) >= 1
    /\ \A k \in 1..Len(x) : SubSeq(x, k, k) \in Letters \cup {" ", "-", "'"}

IsStr(v, lo, hi) == v.t = "str" /\ Len(v.s) >= lo /\ Len(v.s) <= hi
IsNum(v, lo, hi) == v.t = "num" /\ v.n >= lo /\ v.n <= hi
IsEnum(v, S) == v.t = "str" /\ v.s \in S
IsArr(v, lo, hi) == v.t = "arr" /\ Len(v.a) >= lo /\ Len(v.a) <= hi
Optional(v, ok) == v.t = "undef" \/ ok

GenderEnum == {"male", "female", "other"}
ActivityEnum == {"sedentary", "lightly_active", "moderately_active",
                 "very_active", "extra_active"}
GoalEnum == {"lose_weight", "maintain_weight", "gain_weight", "build_muscle"}
FitnessEnum == {"beginner", "intermediate", "advanced"}
MealPrepEnum == {"daily", "weekly", "none"}

\* z.object({...}) of the draft revision, one field at a time.
DraftFieldOK(f, v) ==
    CASE f = "fullName" -> IsStr(v, 2, 50) /\ NameRegex(v.s)
      [] f = "age" -> IsNum(v, 10, 120)
      [] f = "gender" -> IsEnum(v, GenderEnum)
      [] f = "profession" -> IsStr(v, 2, 100)
      [] f \in {"workHours.start", "workHours.end"} -> Optional(v, v.t = "str")
      [] f = "workHours.days" -> IsArr(v, 1, 7)  \* seven checkboxes
      [] f = "heightCm" -> IsNum(v, 50, 250)
      [] f = "weightKg" -> IsNum(v, 20, 300)
      [] f = "activityLevel" -> IsEnum(v, ActivityEnum)
      [] f = "dietaryRestrictions" -> IsArr(v, 1, 10)
      [] f = "allergies" -> IsArr(v, 0, 10)
      [] f = "customAllergies" -> Optional(v, IsStr(v, 0, 200))
      [] f = "medicalConditions" -> IsArr(v, 1, 10)
      [] f \in {"preferredMealTimes.breakfast", "preferredMealTimes.lunch",
                "preferredMealTimes.dinner"} -> Optional(v, v.t = "str")
      [] f = "fitnessLevel" -> IsEnum(v, FitnessEnum)
      [] f = "preferredWorkoutDays" -> IsArr(v, 1, 7)
      [] f = "goal" -> IsEnum(v, GoalEnum)
      [] f = "targetWeight" -> Optional(v, IsNum(v, 20, 300))
      [] f = "targetDate" -> Optional(v, v.t = "str")
      [] f = "weeklyWorkoutGoal" -> Optional(v, IsNum(v, 0, 7))
      [] f = "waterIntakeGoal" -> Optional(v, IsNum(v, 0, 10))
      [] f = "sleepGoal" -> Optional(v, IsNum(v, 4, 12))
      [] f = "mealPrepPreference" -> Optional(v, IsEnum(v, MealPrepEnum))
      [] OTHER -> TRUE

\* .refine(): a weight-loss goal needs a target below the current weight.
DraftRefineOK(fm) ==
    (fm["goal"] = Str("lose_weight") /\ fm["targetWeight"].t = "num"
        /\ fm["targetWeight"].n # 0)
    => (fm["weightKg"].t = "num" /\ fm["targetWeight"].n < fm["weightKg"].n)

\* onboardingSchema of utils/validation.ts, used by the plain revision.
PlainSchemaFields == {"fullName", "age", "gender", "heightCm", "weightKg",
                      "activityLevel", "goal"}
PlainFieldOK(f, v) ==
    CASE f = "fullName" -> IsStr(v, 1, 100000)
      [] f = "age" -> IsNum(v, 10, 120)
      [] f = "gender" -> IsEnum(v, GenderEnum)
      [] f = "heightCm" -> IsNum(v, 50, 250)
      [] f = "weightKg" -> IsNum(v, 20, 300)
      [] f = "activityLevel" -> IsEnum(v, ActivityEnum)
      [] f = "goal" -> IsEnum(v, GoalEnum)
      [] OTHER -> TRUE

\* The constraint the mounted revision's schema puts on field f.
FieldOK(i, f, fm) ==
    IF i = "draft" THEN DraftFieldOK(f, fm[f])
    ELSE PlainFieldOK(f, fm[f])

\* Fields the schema refuses to leave undefined.
Required(i) ==
    IF i = "draft"
    THEN {f \in Fields : ~DraftFieldOK(f, Undef)}
    ELSE PlainSchemaFields

\* Fields with an issue when the resolver parses the whole form.
SchemaIssues(i, fm) ==
    {f \in Fields : ~FieldOK(i, f, fm)}
    \cup (IF i = "draft" /\ ~DraftRefineOK(fm) THEN {"targetWeight"} ELSE {})

(***************************************************************************)
(* JSON.stringify / JSON.parse of the form values: undefined members are   *)
(* dropped and NaN is written as null.                                     *)
(***************************************************************************)
JsonStringify(fm) ==
    [f \in Fields |->
        IF fm[f].t = "undef" THEN Absent
        ELSE IF fm[f].t = "nan" THEN Null
        ELSE fm[f]]

NoItem == [present |-> FALSE, data |-> [f \in Fields |-> Absent]]
Item(d) == [present |-> TRUE, data |-> d]

\* step.toString() and parseInt(savedStep, 10)
StepToString(k) ==
    CASE k = 0 -> "0" [] k = 1 -> "1" [] k = 2 -> "2" [] k = 3 -> "3"
      [] k = 4 -> "4" [] OTHER -> "5"
ParseInt(x) ==
    CASE x = "0" -> 0 [] x = "1" -> 1 [] x = "2" -> 2 [] x = "3" -> 3
      [] x = "4" -> 4 [] OTHER -> 5
NoStep == "none"

(***************************************************************************)
(* Forms a flow in progress can hold: untouched, or every section filled   *)
(* in with acceptable answers.                                             *)
(***************************************************************************)
FilledForm(i) ==
    [f \in Fields |->
        CASE f = "fullName" -> Str("Al")
          [] f = "age" -> Num(25)
          [] f = "gender" -> Str("male")
          [] f = "profession" -> IF i = "draft" THEN Str("Dr") ELSE Undef
          [] f = "workHours.start" -> IF i = "draft" THEN Str("09:00") ELSE Undef
          [] f = "workHours.end" -> IF i = "draft" THEN Str("17:00") ELSE Undef
          [] f = "workHours.days" ->
                IF i = "draft" THEN Arr(<<"monday">>) ELSE Undef
          [] f = "heightCm" -> Num(170)
          [] f = "weightKg" -> Num(70)
          [] f = "activityLevel" -> Str("sedentary")
          [] f = "dietaryRestrictions" -> Arr(<<"vegan">>)
          [] f = "medicalConditions" -> Arr(<<"fit_and_fine">>)
          [] f = "fitnessLevel" -> Str("beginner")
          [] f = "preferredWorkoutDays" -> Arr(<<"monday">>)
          [] f = "goal" -> Str("maintain_weight")
          [] OTHER -> defaultValues(i)[f]]

SampleForms(i) == {defaultValues(i), FilledForm(i)}

\* What the user can enter into a field: a new value or a cleared input
\* (valueAsNumber turns an empty number input into NaN).
EditChoices ==
    { <<"fullName", Str("A")>>, <<"fullName", Str("Al")>>,
      <<"profession", Str("")>>, <<"age", NaN>>,
      <<"dietaryRestrictions", Arr(<<>>)>>,
      <<"goal", Str("lose_weight")>>, <<"targetWeight", Num(90)>>,
      <<"weeklyWorkoutGoal", NaN>>, <<"weeklyWorkoutGoal", Num(5)>> }

\* Texts the "Other Allergies" input can hold after a keystroke.
AllergyPrefix == "I am allergic to"
TypedTexts == {"", "n", "I am allergic to nu"}

StartsWith(x, p) == Len(x) >= Len(p) /\ SubSeq(x, 1, Len(p)) = p
TextOf(v) == IF v.t = "str" THEN v.s ELSE ""

\* The values the user sees in the fields: the form values, with the text
\* of the "Other Allergies" input in place of the registered value.
ShownValues(fm, txt) ==
    [fm EXCEPT !["customAllergies"] =
        IF txt = TextOf(fm["customAllergies"]) THEN fm["customAllergies"]
        ELSE Str(txt)]

(***************************************************************************)
(* The watch subscription of the draft revision: every notification of the *)
(* form writes the whole form under the key onboardingFormData.            *)
(***************************************************************************)
WatchSave(i, st, fm) ==
    IF i = "draft" THEN [st EXCEPT !.draft = Item(JsonStringify(fm))] ELSE st

\* The effect on [step]: writes the key onboardingStep.
StepSave(i, st, k) ==
    IF i = "draft" THEN [st EXCEPT !.step = StepToString(k)] ELSE st

\* trigger(names): refresh the errors of the named fields.
Trigger(i, errs, fm, names) ==
    (errs \ names) \cup (SchemaIssues(i, fm) \cap names)

(***************************************************************************)
(* Mount effects of the draft revision, in declaration order.              *)
(***************************************************************************)
\* Restore effect: every saved entry that is neither undefined nor null is
\* written back with setValue.
RestoredForm(i, st) ==
    IF i # "draft" \/ ~st.draft.present THEN defaultValues(i)
    ELSE [f \in Fields |->
            LET d == st.draft.data[f] IN
            IF f \in NestedFields THEN (IF d = Absent THEN Undef ELSE d)
            ELSE IF d \in {Absent, Null} THEN defaultValues(i)[f]
            ELSE d]

\* setValue notifies the watch subscription, which saves the form again.
RestoredDraft(i, st) ==
    IF i = "draft" /\ st.draft.present
          /\ \E f \in Fields : st.draft.data[f] \notin {Absent, Null}
    THEN Item(JsonStringify(RestoredForm(i, st)))
    ELSE st.draft

\* The step-saving effect runs with the initial step 1 before the
\* step-restoring effect reads the key.
RestoredStep(i, st) ==
    IF i # "draft" THEN 1
    ELSE LET saved == StepSave(i, st, 1).step IN
         IF saved # NoStep THEN ParseInt(saved) ELSE 1

MountedStorage(i, st) ==
    IF i # "draft" THEN st
    ELSE [draft |-> RestoredDraft(i, st),
          step |-> StepToString(RestoredStep(i, st))]

(***************************************************************************)
(* The parts of the application the onboarding flow does not touch stay    *)
(* as they are while the flow runs, and the flow stays unmounted while     *)
(* they run.                                                               *)
(***************************************************************************)
DbIdle ==
    /\ profilesKey = "id"
    /\ user_profiles = {}
    /\ user_goals = {}
    /\ session = <<>>
    /\ lastWrite = <<>>
    /\ writes = 0

SyncIdle ==
    /\ comp = "App"
    /\ authUser = "none"
    /\ goalsRow = <<>>
    /\ mounted = FALSE
    /\ fetches = <<>>
    /\ chans = <<>>
    /\ inbox = <<>>
    /\ local = <<>>
    /\ commits = 0
    /\ delivered = 0
    /\ dropped = 0

ProxyIdle ==
    /\ preq = <<>>
    /\ ppc = "idle"
    /\ pres = <<>>
    /\ chatRows = 0
    /\ hookCalls = 0
    /\ downFail = FALSE

MealIdle ==
    /\ hookRev = "plain"
    /\ logRev = "db"
    /\ mealUser = FALSE
    /\ foodItems = <<>>
    /\ isLogging = FALSE
    /\ mealPc = "idle"
    /\ payload = <<>>
    /\ traffic = <<>>
    /\ rejected = <<>>
    /\ mealOps = 0
    /\ mealRows = <<>>

\* useForm's defaultValues of GoalSetting: every field undefined.
GoalDefaultValues ==
    [targetWeightKg |-> Undef, targetCalories |-> Undef,
     targetProteinRatio |-> Undef, targetCarbsRatio |-> Undef,
     targetFatRatio |-> Undef]

GoalIdle ==
    /\ disabledProp = "honoured"
    /\ goalUser = FALSE
    /\ goalForm = GoalDefaultValues
    /\ goalDefaults = GoalDefaultValues
    /\ goalErrors = <<>>
    /\ isSavingGoals = FALSE
    /\ goalData = <<>>
    /\ goalWrites = <<>>
    /\ goalOps = 0

\* A component that is not rendered.
Off == [pc |-> "off"]

OldIdle == DbIdle /\ SyncIdle /\ ProxyIdle /\ MealIdle /\ GoalIdle

MoreIdle == profile = Off /\ boot = Off /\ chat = Off /\ login = Off

RestIdle == OldIdle /\ MoreIdle

FlowIdle ==
    /\ impl = "draft"
    /\ route = "strict"
    /\ user = FALSE
    /\ form = defaultValues(impl)
    /\ allergyText = ""
    /\ errors = {}
    /\ step = 1
    /\ isSubmitting = FALSE
    /\ storage = [draft |-> NoItem, step |-> NoStep]
    /\ subs = <<>>
    /\ view = "dashboard"
    /\ edits = 0
    /\ reloads = 0

NotDbIdle == FlowIdle /\ SyncIdle /\ ProxyIdle /\ MealIdle /\ GoalIdle /\ MoreIdle
NotSyncIdle == FlowIdle /\ DbIdle /\ ProxyIdle /\ MealIdle /\ GoalIdle /\ MoreIdle
NotProxyIdle == FlowIdle /\ DbIdle /\ SyncIdle /\ MealIdle /\ GoalIdle /\ MoreIdle
NotMealIdle == FlowIdle /\ DbIdle /\ SyncIdle /\ ProxyIdle /\ GoalIdle /\ MoreIdle
NotGoalIdle == FlowIdle /\ DbIdle /\ SyncIdle /\ ProxyIdle /\ MealIdle /\ MoreIdle
NotProfileIdle ==
    FlowIdle /\ OldIdle /\ boot = Off /\ chat = Off /\ login = Off
NotAuthIdle == FlowIdle /\ OldIdle /\ profile = Off /\ chat = Off
NotChatIdle ==
    FlowIdle /\ OldIdle /\ profile = Off /\ boot = Off /\ login = Off

(***************************************************************************)
(* Initial states: a flow at step 1 whose fields hold one of the sample    *)
(* forms; the draft revision has mirrored it into localStorage.            *)
(***************************************************************************)
Init ==
    /\ impl \in {"draft", "plain"}
    /\ route \in {"strict", "forward"}
    /\ user \in BOOLEAN
    /\ form \in SampleForms(impl)
    /\ allergyText = TextOf(form["customAllergies"])
    /\ errors = {}
    /\ step = 1
    /\ isSubmitting = FALSE
    /\ storage = [draft |-> IF impl = "draft" /\ form # defaultValues(impl)
                            THEN Item(JsonStringify(form)) ELSE NoItem,
                  step |-> IF impl = "draft" THEN StepToString(1) ELSE NoStep]
    /\ subs = <<>>
    /\ view = "onboarding"
    /\ edits = 0
    /\ reloads = 0
    /\ RestIdle

InFlight == {k \in 1..Len(subs) : subs[k].pc # "done"}

\* Page reload: the component is mounted again over the same localStorage.
Reload ==
    /\ view = "onboarding"
    /\ InFlight = {}
    /\ \A k \in 1..Len(subs) : subs[k].nav # "pending"
    /\ reloads < MaxReloads
    /\ reloads' = reloads + 1
    /\ form' = RestoredForm(impl, storage)
    /\ allergyText' = TextOf(form'["customAllergies"])
    /\ step' = RestoredStep(impl, storage)
    /\ storage' = MountedStorage(impl, storage)
    /\ errors' = {}
    /\ isSubmitting' = FALSE
    /\ UNCHANGED <<impl, route, user, subs, view, edits>>
    /\ UNCHANGED restVars

(***************************************************************************)
(* Field edits.                                                            *)
(***************************************************************************)
\* Inputs rendered at the current step.
Rendered(f) ==
    /\ f \in ShownAt(step)
    /\ impl = "plain" => f \notin DraftOnlyFields
    /\ f \in {"targetWeight", "targetDate"} => form["goal"] = Str("lose_weight")

\* Handlers of the draft revision that call trigger() after setValue().
TriggeringFields == (NestedFields \cup Step2Shown) \ {"customAllergies"}

SetField(f, v) ==
    /\ view = "onboarding"
    /\ edits < MaxEdits
    /\ Rendered(f)
    /\ f # "customAllergies"
    /\ edits' = edits + 1
    /\ form' = [form EXCEPT ![f] = v]
    /\ storage' = WatchSave(impl, storage, form')
    /\ errors' = IF impl = "draft" /\ f \in TriggeringFields
                 THEN Trigger(impl, errors, form', {f}) ELSE errors
    /\ UNCHANGED <<impl, route, user, allergyText, step, isSubmitting, subs,
                   view, reloads>>
    /\ UNCHANGED restVars

\* onChange of the "Other Allergies" input (draft revision): it replaces
\* the handler returned by register(); setValue is called only for a
\* non-empty text that lacks the prefix.
TypeCustomAllergies(txt) ==
    /\ view = "onboarding"
    /\ impl = "draft"
    /\ edits < MaxEdits
    /\ Rendered("customAllergies")
    /\ txt # allergyText
    /\ edits' = edits + 1
    /\ IF txt # "" /\ ~StartsWith(txt, AllergyPrefix)
       THEN /\ form' = [form EXCEPT !["customAllergies"] =
                            Str(AllergyPrefix \o " " \o txt)]
            /\ allergyText' = AllergyPrefix \o " " \o txt
            /\ storage' = WatchSave(impl, storage, form')
       ELSE /\ allergyText' = txt
            /\ UNCHANGED <<form, storage>>
    /\ errors' = Trigger(impl, errors, form', {"customAllergies"})
    /\ UNCHANGED <<impl, route, user, step, isSubmitting, subs, view, reloads>>
    /\ UNCHANGED restVars

(***************************************************************************)
(* Step navigation.                                                        *)
(***************************************************************************)
\* validateCurrentStep: the names handed to trigger() at each step.
currentStepFields(s) ==
    IF s = 1 THEN {"fullName", "age", "gender", "heightCm", "weightKg",
                   "activityLevel"}
    ELSE IF s = 2 THEN {"dietaryRestrictions", "allergies",
                        "medicalConditions", "preferredMealTimes.breakfast",
                        "preferredMealTimes.lunch", "preferredMealTimes.dinner",
                        "fitnessLevel", "preferredWorkoutDays"}
    ELSE Step3Shown

validateCurrentStep == SchemaIssues(impl, form) \cap currentStepFields(step) = {}

\* The Next button: handleNextStep in the draft revision, a plain
\* setStep(step + 1) in the plain revision.
handleNextStep ==
    /\ view = "onboarding"
    /\ step < 3
    /\ IF impl = "draft"
       THEN /\ errors' = Trigger(impl, errors, form, currentStepFields(step))
            /\ step' = IF validateCurrentStep THEN step + 1 ELSE step
       ELSE /\ step' = step + 1
            /\ errors' = errors
    /\ storage' = StepSave(impl, storage, step')
    /\ UNCHANGED <<impl, route, user, form, allergyText, isSubmitting, subs,
                   view, edits, reloads>>
    /\ UNCHANGED restVars

\* The Previous button.
PreviousStep ==
    /\ view = "onboarding"
    /\ step > 1
    /\ step' = step - 1
    /\ storage' = StepSave(impl, storage, step')
    /\ UNCHANGED <<impl, route, user, form, allergyText, errors, isSubmitting,
                   subs, view, edits, reloads>>
    /\ UNCHANGED restVars

(***************************************************************************)
(* The /api/n8n/onboarding proxy route and the client call that uses it.   *)
(***************************************************************************)
\* What the external workflow can do with a forwarded request.
HookOutcomes == {"ok", "non2xx", "malformed", "down", "unset"}

\* HTTP status answered by the route for a request with the given method
\* and the given top-level body keys.
OnboardingRoute(r, method, body, hook) ==
    IF r = "strict"
    THEN CASE method = "OPTIONS" -> 200
           [] method # "POST" -> 405
           [] "user_id" \notin body -> 400
           [] hook = "ok" -> 200
           [] OTHER -> 500
    ELSE CASE method # "POST" -> 405
           [] hook = "unset" -> 500
           [] hook = "ok" -> 200
           [] OTHER -> 500

\* Top-level keys of the body handed to triggerOnboarding by onSubmit.
OnboardingBody(i) ==
    IF i = "draft" THEN {"userId", "timestamp", "context"}
    ELSE {"userId"} \cup PlainSchemaFields

\* Variant: a failed call is swallowed instead of thrown.
triggerOnboardingThrows_Never(net, status) == FALSE

\* triggerOnboarding throws when fetch rejects or the response is not ok.
triggerOnboardingThrows(net, status) == net # "ok" \/ status < 200 \/ status > 299

\* Variant: the error of a write is not checked.
writeThrows_Never(ok) == FALSE

\* "if (profileError) throw": a failed write is thrown to the catch block.
writeThrows(ok) == ~ok

(***************************************************************************)
(* onSubmit: one record of subs per invocation.                            *)
(***************************************************************************)
\* Requests awaited by one submission, in source order.
Stages(i) ==
    IF i = "draft" THEN <<"profile", "notify">>
    ELSE <<"profile", "goals", "preferences", "notify">>

StageIndex(i, st) == CHOOSE k \in 1..Len(Stages(i)) : Stages(i)[k] = st

\* The request awaited after stage st has returned without throwing.
StageAfter(i, st) ==
    IF StageIndex(i, st) < Len(Stages(i))
    THEN Stages(i)[StageIndex(i, st) + 1] ELSE "done"

NewSub(p, res, errs) ==
    [pc |-> p, result |-> res, log |-> <<>>, okToasts |-> 0,
     errToasts |-> errs, nav |-> "none",
     endStep |-> IF p = "done" THEN step ELSE 0]

\* Variant: the submit button is not disabled while a submission runs.
CanSubmit_NoLoadingGuard == step = 3

\* The submit button is rendered at step 3 and disabled while isLoading.
CanSubmit == step = 3 /\ ~isSubmitting

\* handleSubmit(onSubmit): the resolver validates the whole form first.
Submit ==
    /\ view = "onboarding"
    /\ CanSubmit
    /\ Len(subs) < MaxSubmits
    /\ IF SchemaIssues(impl, form) # {}
       THEN /\ errors' = SchemaIssues(impl, form)
            /\ UNCHANGED <<subs, isSubmitting>>
       ELSE /\ errors' = {}
            /\ IF ~user
               THEN /\ subs' = Append(subs, NewSub("done", "failed", 1))
                    /\ UNCHANGED isSubmitting
               ELSE /\ subs' = Append(subs, NewSub("profile", "pending", 0))
                    /\ isSubmitting' = TRUE
    /\ UNCHANGED <<impl, route, user, form, allergyText, step, storage, view,
                   edits, reloads>>
    /\ UNCHANGED restVars

\* Variant: no finally block, isSubmitting stays true after a failure.
Fail_NoFinally(k, entry) ==
    /\ subs' = [subs EXCEPT ![k] =
                  [@ EXCEPT !.pc = "done", !.result = "failed",
                            !.log = Append(@, entry),
                            !.errToasts = @ + 1,
                            !.endStep = step]]
    /\ UNCHANGED <<impl, route, user, form, allergyText, errors, step,
                   isSubmitting, storage, view, edits, reloads>>

\* Variant: the catch block also drops the stored draft.
Fail_ClearsDraft(k, entry) ==
    /\ subs' = [subs EXCEPT ![k] =
                  [@ EXCEPT !.pc = "done", !.result = "failed",
                            !.log = Append(@, entry),
                            !.errToasts = @ + 1,
                            !.endStep = step]]
    /\ isSubmitting' = FALSE
    /\ storage' = [storage EXCEPT !.draft = NoItem]
    /\ UNCHANGED <<impl, route, user, form, allergyText, errors, step,
                   view, edits, reloads>>

\* catch + finally: one error toast, isSubmitting back to false.
Fail(k, entry) ==
    /\ subs' = [subs EXCEPT ![k] =
                  [@ EXCEPT !.pc = "done", !.result = "failed",
                            !.log = Append(@, entry),
                            !.errToasts = @ + 1,
                            !.endStep = step]]
    /\ isSubmitting' = FALSE
    /\ UNCHANGED <<impl, route, user, form, allergyText, errors, step,
                   storage, view, edits, reloads>>

\* The awaited request returned; the next one is issued.
Advance(k, entry) ==
    /\ subs' = [subs EXCEPT ![k] =
                  [@ EXCEPT !.pc = StageAfter(impl, entry.op),
                            !.log = Append(@, entry)]]
    /\ UNCHANGED <<impl, route, user, form, allergyText, errors, step,
                   isSubmitting, storage, view, edits, reloads>>

\* localStorage after the success path: both keys are removed, then
\* reset() notifies the watch subscription with the default values.
StorageAfterSuccess(i, st) ==
    IF i = "draft"
    THEN WatchSave(i, [draft |-> NoItem, step |-> NoStep], defaultValues(i))
    ELSE st

\* Success path after triggerOnboarding resolved.
Complete(k, entry) ==
    /\ subs' = [subs EXCEPT ![k] =
                  [@ EXCEPT !.pc = "done", !.result = "complete",
                            !.log = Append(@, entry),
                            !.okToasts = @ + 1,
                            !.endStep = step,
                            !.nav = IF impl = "draft" THEN "pending"
                                    ELSE "fired"]]
    /\ storage' = StorageAfterSuccess(impl, storage)
    /\ form' = defaultValues(impl)
    /\ allergyText' = ""
    /\ errors' = {}
    /\ view' = IF impl = "draft" THEN view ELSE "dashboard"
    /\ isSubmitting' = FALSE
    /\ UNCHANGED <<impl, route, user, step, edits, reloads>>

\* A database write answered.
WriteResp(k, st, ok) ==
    /\ k \in 1..Len(subs)
    /\ subs[k].pc = st
    /\ IF writeThrows(ok) THEN Fail(k, [op |-> st, ok |-> ok])
       ELSE Advance(k, [op |-> st, ok |-> ok])
    /\ UNCHANGED restVars

ProfileResp(k, ok) == WriteResp(k, "profile", ok)
GoalsResp(k, ok) == WriteResp(k, "goals", ok)
PreferencesResp(k, ok) == WriteResp(k, "preferences", ok)

\* The fetch of /api/n8n/onboarding answered (or was rejected).
NotifyResp(k, net, hook) ==
    /\ k \in 1..Len(subs)
    /\ subs[k].pc = "notify"
    /\ LET status == OnboardingRoute(route, "POST",
                                     OnboardingBody(impl), hook)
           entry == [op |-> "notify", ok |-> (net = "ok" /\ status = 200)]
       IN IF triggerOnboardingThrows(net, status) THEN Fail(k, entry)
          ELSE Complete(k, entry)
    /\ UNCHANGED restVars

\* setTimeout(() => router.push('/dashboard'), 1000) of the draft revision.
NavTimer(k) ==
    /\ k \in 1..Len(subs)
    /\ subs[k].nav = "pending"
    /\ subs' = [subs EXCEPT ![k].nav = "fired"]
    /\ view' = "dashboard"
    /\ UNCHANGED <<impl, route, user, form, allergyText, errors, step,
                   isSubmitting, storage, edits, reloads>>
    /\ UNCHANGED restVars

Responses ==
    \E k \in 1..MaxSubmits :
        \/ \E ok \in BOOLEAN : ProfileResp(k, ok)
        \/ \E ok \in BOOLEAN : GoalsResp(k, ok)
        \/ \E ok \in BOOLEAN : PreferencesResp(k, ok)
        \/ \E net \in {"ok", "down"}, hook \in HookOutcomes :
              NotifyResp(k, net, hook)

Timers == \E k \in 1..MaxSubmits : NavTimer(k)

Next ==
    \/ \E c \in EditChoices : SetField(c[1], c[2])
    \/ \E txt \in TypedTexts : TypeCustomAllergies(txt)
    \/ handleNextStep
    \/ PreviousStep
    \/ Submit
    \/ \E k \in 1..MaxSubmits, ok \in BOOLEAN : ProfileResp(k, ok)
    \/ \E k \in 1..MaxSubmits, ok \in BOOLEAN : GoalsResp(k, ok)
    \/ \E k \in 1..MaxSubmits, ok \in BOOLEAN : PreferencesResp(k, ok)
    \/ \E k \in 1..MaxSubmits, net \in {"ok", "down"}, hook \in HookOutcomes :
          NotifyResp(k, net, hook)
    \/ \E k \in 1..MaxSubmits : NavTimer(k)
    \/ Reload

Spec == Init /\ [][Next]_vars

\* The flow of the revision that keeps a draft in localStorage.
DraftInit == Init /\ impl = "draft"

\* Every awaited promise settles and every armed timer fires.
DraftFairSpec ==
    DraftInit /\ [][Next]_vars /\ WF_vars(Responses) /\ WF_vars(Timers)

(***************************************************************************)
(* Properties.                                                             *)
(***************************************************************************)
SubIds == 1..Len(subs)

\* Submission k ends in this step with the given result.
Becomes(k, res) ==
    /\ k \in 1..Len(subs')
    /\ subs'[k].result = res
    /\ (k > Len(subs) \/ subs[k].result # res)

\* Field values as the user sees them: an empty number input reads the
\* same whether the form holds NaN or undefined.
Displayed(fm, txt) ==
    [f \in Fields |->
        IF ShownValues(fm, txt)[f].t = "nan" THEN Undef
        ELSE ShownValues(fm, txt)[f]]

\* Required fields whose input is rendered at step s.
RequiredAt(s) ==
    {f \in Required(impl) \cap ShownAt(s) :
        impl = "plain" => f \notin DraftOnlyFields}

\* C1: pressing Next at step 1 or 2 moves to the next step if and only if
\* every required field of that step satisfies its schema constraint;
\* otherwise the step stays.
C1_NextIffStepValid ==
    [][handleNextStep =>
         /\ (step' = step + 1) <=>
               (\A f \in RequiredAt(step) : FieldOK(impl, f, form))
         /\ (\E f \in RequiredAt(step) : ~FieldOK(impl, f, form))
               => step' = step]_vars

\* Requests submission k has issued so far, in order of issue.
Issued(k) ==
    [j \in 1..Len(subs[k].log) |-> subs[k].log[j].op]
    \o (IF subs[k].pc = "done" THEN <<>> ELSE <<subs[k].pc>>)

Rank(op) ==
    CASE op = "profile" -> 1 [] op = "goals" -> 2 [] op = "preferences" -> 3
      [] OTHER -> 4

\* C2: within one submission the profile write, the goals write and the
\* notification are issued in this order, each only after every earlier
\* request has succeeded.
C2_SequentialSteps ==
    \A k \in SubIds :
        /\ Issued(k) # <<>> => Issued(k)[1] = "profile"
        /\ \A a, b \in 1..Len(Issued(k)) :
              a < b => Rank(Issued(k)[a]) < Rank(Issued(k)[b])
        /\ \A j \in 1..Len(subs[k].log) :
              j < Len(Issued(k)) => subs[k].log[j].ok

\* A goals write failed after a successful profile write and nothing
\* followed it.
C2_Witness ==
    \E k \in SubIds :
        /\ subs[k].pc = "done"
        /\ subs[k].log = <<[op |-> "profile", ok |-> TRUE],
                           [op |-> "goals", ok |-> FALSE]>>

\* C3: success (toast, navigation) is reported only when every write and
\* the notification succeeded; a submission with a failed request shows
\* exactly one error message, no success and no navigation.
C3_SuccessOnlyIfAllSucceeded ==
    /\ \A k \in SubIds :
          /\ (subs[k].okToasts > 0 \/ subs[k].nav # "none"
                \/ subs[k].result = "complete")
             => /\ \A j \in 1..Len(subs[k].log) : subs[k].log[j].ok
                /\ \E j \in 1..Len(subs[k].log) : subs[k].log[j].op = "profile"
                /\ \E j \in 1..Len(subs[k].log) : subs[k].log[j].op = "notify"
                /\ subs[k].errToasts = 0
          /\ (subs[k].pc = "done"
                /\ \E j \in 1..Len(subs[k].log) : ~subs[k].log[j].ok)
             => /\ subs[k].errToasts = 1
                /\ subs[k].okToasts = 0
                /\ subs[k].nav = "none"
    /\ view = "dashboard" => \E k \in SubIds : subs[k].result = "complete"

\* One submission failed at the notification, a later one succeeded and
\* navigated.
C3_Witness ==
    /\ view = "dashboard"
    /\ \E j, k \in SubIds :
          /\ subs[j].result = "failed"
          /\ subs[j].log[Len(subs[j].log)] = [op |-> "notify", ok |-> FALSE]
          /\ subs[k].result = "complete"

C5_FailedRetainedAtStep3 ==
    /\ [](step \in {1, 2, 3})
    /\ [][Len(subs') > Len(subs) => step = 3]_vars
    /\ [][\A k \in 1..Len(subs') :
            Becomes(k, "failed") => (step' = 3 /\ ~isSubmitting')]_vars

\* C5 amended: the step index stays in 1..3, a submission starts only at
\* step 3, every started submission ends complete or failed (again and
\* again all the submissions started so far have ended, and an ended one
\* keeps its result), and a failure enables the submit control again and
\* leaves the step index as it was when the failure arrived.
C5_FailedKeepsStep ==
    /\ [](step \in {1, 2, 3})
    /\ [][Len(subs') > Len(subs) => step = 3]_vars
    /\ [][\A k \in 1..Len(subs') :
            Becomes(k, "failed") => (step' = step /\ ~isSubmitting')]_vars
    /\ []<>(\A k \in SubIds : subs[k].result \in {"complete", "failed"})
    /\ [][\A k \in SubIds :
            subs[k].result \in {"complete", "failed"} =>
               (k \in 1..Len(subs') /\ subs'[k].result = subs[k].result)]_vars

\* A submission failed while the flow had been moved back to step 2.
C5_Witness ==
    \E k \in SubIds :
        /\ subs[k].result = "failed"
        /\ subs[k].log # <<>>
        /\ subs[k].endStep = 2
        /\ ~isSubmitting

\* C6: the steps of a submission that does not succeed change neither the
\* form values nor the stored draft, and a failed submission has issued
\* every request at most once and issues nothing more.
C6_FailureKeepsDraft ==
    /\ [](\A k \in SubIds :
            /\ subs[k].result = "failed" => subs[k].pc = "done"
            /\ \A a, b \in 1..Len(subs[k].log) :
                  subs[k].log[a].op = subs[k].log[b].op => a = b)
    /\ [][(/\ subs' # subs
           /\ \A k \in 1..Len(subs') : ~Becomes(k, "complete"))
          => (/\ form' = form
              /\ allergyText' = allergyText
              /\ storage' = storage
              /\ \A k \in 1..Len(subs') :
                    Becomes(k, "failed") =>
                       \A j \in 1..Len(subs') :
                          j # k => (j \in SubIds /\ subs'[j] = subs[j]))]_vars

\* A submission of the draft revision failed while a draft is stored.
C6_Witness ==
    /\ impl = "draft"
    /\ storage.draft.present
    /\ form # defaultValues(impl)
    /\ \E k \in SubIds : subs[k].result = "failed" /\ subs[k].log # <<>>

\* C7: when a submission of the draft revision ends successfully, local
\* storage holds neither the draft key nor the step key.
C7_DraftClearedOnSuccess ==
    [][(impl = "draft" /\ \E k \in 1..Len(subs') : Becomes(k, "complete"))
       => (storage'.draft = NoItem /\ storage'.step = NoStep)]_vars

\* C8: reloading a flow whose draft has been saved shows the same value in
\* every field as before the reload.
C8_DraftRoundTrip ==
    [][(/\ Reload
        /\ impl = "draft"
        /\ storage.draft = Item(JsonStringify(ShownValues(form, allergyText))))
       => Displayed(form', allergyText') = Displayed(form, allergyText)]_vars

\* C9: a reload at step 2 or 3 resumes at the same step.
C9_StepRestored ==
    [][(Reload /\ impl = "draft" /\ step \in {2, 3}) => step' = step]_vars

\* C10: after every change of a field of the draft revision, the stored
\* draft is the serialization of the current field values.
C10_DraftMirrorsFields ==
    [][(/\ impl = "draft"
        /\ ShownValues(form', allergyText') # ShownValues(form, allergyText))
       => storage'.draft =
             Item(JsonStringify(ShownValues(form', allergyText')))]_vars

(***************************************************************************)
(* The database: tables user_profiles and user_goals, written by the       *)
(* profile form, the goal form and the onboarding flows of any number of   *)
(* browser sessions.                                                       *)
(***************************************************************************)
NumSessions == 2
NumPayloads == 2
MaxWrites == 3

Users == {"u1", "u2"}
NoUser == "none"
Sessions == 1..NumSessions
Payloads == 1..NumPayloads

\* user_goals: id UUID PRIMARY KEY, UNIQUE(user_id).
GoalsKey == "id"

\* user_profiles: one row per user (user_id unique); its primary key is
\* either a generated id, as in user_goals, or user_id itself.
ProfileKeys == {"id", "user_id"}

Row(i, u, v) == [id |-> i, user_id |-> u, val |-> v]

\* supabase .upsert(row, {onConflict}) of a row that carries user_id and no
\* id: INSERT ... ON CONFLICT (target) DO UPDATE, where the target is the
\* onConflict column, or the primary key when none is given.  A generated
\* id never conflicts, so with target id the statement is a plain INSERT
\* and the UNIQUE(user_id) constraint rejects a second row of the user.
Upsert(rows, key, conflictColumn, u, v, fresh) ==
    LET target == IF conflictColumn = "none" THEN key ELSE conflictColumn
        same == {r \in rows : r.user_id = u}
    IN  IF same = {}
        THEN [rows |-> rows \cup {Row(fresh, u, v)}, error |-> FALSE]
        ELSE IF target = "user_id"
        THEN [rows |-> {IF r.user_id = u THEN [r EXCEPT !.val = v] ELSE r :
                          r \in rows},
              error |-> FALSE]
        ELSE [rows |-> rows, error |-> TRUE]

\* The code places that write a profile, and the onConflict option each
\* passes.
ProfileSites == {"UserProfile", "part_006", "OnboardingFlow"}
GoalSites == {"GoalSetting", "OnboardingFlow"}

onConflict(site) == IF site = "OnboardingFlow" THEN "none" ELSE "user_id"

NoWrite == [table |-> "none", site |-> "none", user |-> NoUser, val |-> 0,
            error |-> FALSE]

DbInit ==
    /\ profilesKey \in ProfileKeys
    /\ user_profiles = {}
    /\ user_goals = {}
    /\ session \in [Sessions ->
                      {[user |-> u, pc |-> "idle", data |-> 0] :
                          u \in Users \cup {NoUser}}]
    /\ lastWrite = NoWrite
    /\ writes = 0
    /\ NotDbIdle

\* onSubmit of UserProfile, and the user_profiles upsert of either
\* onboarding flow.  The plain onboarding flow goes on to write the goals
\* when the profile write succeeded.
SubmitProfile(s, site, v) ==
    /\ writes < MaxWrites
    /\ session[s].user # NoUser
    /\ session[s].pc = "idle"
    /\ LET u == session[s].user
           res == Upsert(user_profiles, profilesKey, onConflict(site), u, v,
                         writes + 1)
       IN  /\ user_profiles' = res.rows
           /\ lastWrite' = [table |-> "user_profiles", site |-> site,
                            user |-> u, val |-> v, error |-> res.error]
           /\ session' = IF site = "OnboardingFlow" /\ ~res.error
                         THEN [session EXCEPT ![s].pc = "goals",
                                              ![s].data = v]
                         ELSE session
    /\ writes' = writes + 1
    /\ UNCHANGED <<profilesKey, user_goals>>
    /\ UNCHANGED notDb

\* The user_goals upsert of the plain onboarding flow.
OnboardingGoals(s) ==
    /\ writes < MaxWrites
    /\ session[s].pc = "goals"
    /\ LET u == session[s].user
           v == session[s].data
           res == Upsert(user_goals, GoalsKey, onConflict("OnboardingFlow"),
                         u, v, writes + 1)
       IN  /\ user_goals' = res.rows
           /\ lastWrite' = [table |-> "user_goals", site |-> "OnboardingFlow",
                            user |-> u, val |-> v, error |-> res.error]
    /\ session' = [session EXCEPT ![s].pc = "idle"]
    /\ writes' = writes + 1
    /\ UNCHANGED <<profilesKey, user_profiles>>
    /\ UNCHANGED notDb

\* onSubmit of GoalSetting.
SubmitGoals(s, v) ==
    /\ writes < MaxWrites
    /\ session[s].user # NoUser
    /\ session[s].pc = "idle"
    /\ LET u == session[s].user
           res == Upsert(user_goals, GoalsKey, onConflict("GoalSetting"),
                         u, v, writes + 1)
       IN  /\ user_goals' = res.rows
           /\ lastWrite' = [table |-> "user_goals", site |-> "GoalSetting",
                            user |-> u, val |-> v, error |-> res.error]
    /\ writes' = writes + 1
    /\ UNCHANGED <<profilesKey, user_profiles, session>>
    /\ UNCHANGED notDb

DbNext ==
    \/ \E s \in Sessions, site \in ProfileSites, v \in Payloads :
          SubmitProfile(s, site, v)
    \/ \E s \in Sessions : OnboardingGoals(s)
    \/ \E s \in Sessions, v \in Payloads : SubmitGoals(s, v)

DbSpec == DbInit /\ [][DbNext]_vars

RowsOf(rows, u) == {r \in rows : r.user_id = u}

\* C11: a profile submission that repeats the payload the user's row already
\* holds does not fail, adds no row, and leaves exactly one row of the user,
\* holding the submitted values.
C11_UpsertIdempotent ==
    [][(/\ writes' > writes
        /\ lastWrite'.table = "user_profiles"
        /\ \E r \in user_profiles :
              r.user_id = lastWrite'.user /\ r.val = lastWrite'.val)
       => (/\ ~lastWrite'.error
           /\ Cardinality(user_profiles') = Cardinality(user_profiles)
           /\ Cardinality(RowsOf(user_profiles', lastWrite'.user)) = 1
           /\ \A r \in RowsOf(user_profiles', lastWrite'.user) :
                 r.val = lastWrite'.val)]_vars

\* C12: every user has at most one user_profiles row and at most one
\* user_goals row, and a goal submission (from the goal form or from
\* onboarding) for a user who already has a row does not fail and leaves
\* that row holding the submitted values.
C12_SingletonRows ==
    /\ [](\A u \in Users :
            /\ Cardinality(RowsOf(user_profiles, u)) <= 1
            /\ Cardinality(RowsOf(user_goals, u)) <= 1)
    /\ [][(/\ writes' > writes
           /\ lastWrite'.table = "user_goals"
           /\ RowsOf(user_goals, lastWrite'.user) # {})
          => (/\ ~lastWrite'.error
              /\ \A r \in RowsOf(user_goals', lastWrite'.user) :
                    r.val = lastWrite'.val)]_vars

(***************************************************************************)
(* Goals kept fresh: a component fetches the user_goals row of the         *)
(* signed-in user and follows its changes over a realtime channel.  Init   *)
(* picks the component: App, DailyOverview, GoalSetting or ProgressTracker.*)
(***************************************************************************)
MaxCommits == 2
MaxEffects == 2

Components == {"App", "DailyOverview", "GoalSetting", "ProgressTracker"}

GoalFields == {"targetCalories", "targetProteinRatio"}

NoRow == <<>>

GoalRow(c, p) == [f \in GoalFields |-> IF f = "targetCalories" THEN c ELSE p]

\* Rows a goal form can commit (an unset column is null).
GoalRows == {GoalRow(Num(2000), Num(30)), GoalRow(Null, Num(0)),
             GoalRow(Num(2500), Null)}

\* JavaScript truthiness of a value, and x || undefined, x || null.
Falsy(v) == v.t \in {"undef", "null", "nan"} \/ v = Num(0) \/ v = Str("")
OrUndefined(v) == IF Falsy(v) THEN Undef ELSE v
OrNull(v) == IF Falsy(v) THEN Null ELSE v

RowView(row, f) == IF f \in DOMAIN row THEN row[f] ELSE Null

\* The fields of the row a component keeps in its state.
Holds(c) == IF c = "ProgressTracker" THEN {"targetCalories"} ELSE GoalFields

\* useState / useForm defaults.
InitialState(c) ==
    CASE c \in {"App", "DailyOverview"} -> NoRow
      [] c = "GoalSetting" -> [f \in GoalFields |-> Undef]
      [] c = "ProgressTracker" -> [f \in Holds(c) |-> Null]

\* What the component does with the data of its fetch.
AfterFetch(c, loc, data) ==
    CASE c \in {"App", "DailyOverview"} -> IF data # NoRow THEN data ELSE loc
      [] c = "GoalSetting" ->
            IF data # NoRow THEN [f \in GoalFields |-> OrUndefined(data[f])]
            ELSE loc
      [] c = "ProgressTracker" ->
            [f \in Holds(c) |-> OrNull(RowView(data, f))]

\* The events a component binds its handler to.
BoundEvents(c) ==
    IF c = "GoalSetting" THEN {"UPDATE"} ELSE {"INSERT", "UPDATE", "DELETE"}

\* The handler of a postgres_changes notification n = [event, new].
OnChange(c, loc, n) ==
    CASE c \in {"App", "DailyOverview"} -> n.new
      [] c = "GoalSetting" -> [f \in GoalFields |-> OrUndefined(n.new[f])]
      [] c = "ProgressTracker" -> [f \in Holds(c) |-> OrNull(n.new[f])]

SyncInit ==
    /\ comp \in Components
    /\ authUser \in {NoUser, "u1"}
    /\ goalsRow \in {NoRow, GoalRow(Num(2000), Num(30))}
    /\ mounted = FALSE
    /\ fetches = <<>>
    /\ chans = <<>>
    /\ inbox = <<>>
    /\ local = InitialState(comp)
    /\ commits = 0
    /\ delivered = 0
    /\ dropped = 0
    /\ NotSyncIdle

\* The effect's cleanup: goalsSubscription.unsubscribe().
Cleanup_NoUnsubscribe(cs) == cs

Cleanup(cs) ==
    [k \in 1..Len(cs) |->
        IF k = Len(cs)
        THEN [cs[k] EXCEPT !.st = "closed", !.cancels = cs[k].cancels + 1]
        ELSE cs[k]]

\* The effect's body for user u: start the fetch (nothing is fetched without
\* a user) and open a channel filtered on user_id = u.
RunEffect(u, cs) ==
    /\ fetches' = IF u # NoUser
                  THEN Append(fetches, [st |-> "sent", data |-> NoRow])
                  ELSE fetches
    /\ chans' = Append(cs, [st |-> "joining", filter |-> u, cancels |-> 0])
    /\ inbox' = <<>>

Mount ==
    /\ ~mounted
    /\ chans = <<>>
    /\ mounted' = TRUE
    /\ local' = InitialState(comp)
    /\ RunEffect(authUser, chans)
    /\ UNCHANGED <<comp, authUser, goalsRow, commits, delivered, dropped>>
    /\ UNCHANGED notSync

\* user?.id changes (sign-in or sign-out): the effect is cleaned up and run
\* again.
AuthChange(u) ==
    /\ u # authUser
    /\ authUser' = u
    /\ IF mounted
       THEN /\ Len(chans) < MaxEffects
            /\ RunEffect(u, Cleanup(chans))
       ELSE UNCHANGED <<fetches, chans, inbox>>
    /\ UNCHANGED <<comp, goalsRow, mounted, local, commits, delivered,
                   dropped>>
    /\ UNCHANGED notSync

Unmount ==
    /\ mounted
    /\ mounted' = FALSE
    /\ chans' = Cleanup(chans)
    /\ UNCHANGED <<comp, authUser, goalsRow, fetches, inbox, local, commits,
                   delivered, dropped>>
    /\ UNCHANGED notSync

\* The server registers the subscription.
Joined ==
    /\ chans # <<>>
    /\ chans[Len(chans)].st = "joining"
    /\ chans' = [chans EXCEPT ![Len(chans)].st = "joined"]
    /\ UNCHANGED <<comp, authUser, goalsRow, mounted, fetches, inbox, local,
                   commits, delivered, dropped>>
    /\ UNCHANGED notSync

\* The server executes the select of fetch k.
FetchRead(k) ==
    /\ k \in 1..Len(fetches)
    /\ fetches[k].st = "sent"
    /\ fetches' = [fetches EXCEPT ![k] = [st |-> "read", data |-> goalsRow]]
    /\ UNCHANGED <<comp, authUser, goalsRow, mounted, chans, inbox, local,
                   commits, delivered, dropped>>
    /\ UNCHANGED notSync

\* The answer of fetch k arrives (ok) or the request fails.
FetchReturn(k, ok) ==
    /\ k \in 1..Len(fetches)
    /\ fetches[k].st = "read"
    /\ fetches' = [fetches EXCEPT ![k].st = IF ok THEN "done" ELSE "failed"]
    /\ local' = IF ok /\ mounted THEN AfterFetch(comp, local, fetches[k].data)
                ELSE local
    /\ UNCHANGED <<comp, authUser, goalsRow, mounted, chans, inbox, commits,
                   delivered, dropped>>
    /\ UNCHANGED notSync

\* Another tab or device commits the row; a joined channel whose filter
\* matches the row is sent the change.
Commit(v) ==
    /\ commits < MaxCommits
    /\ commits' = commits + 1
    /\ goalsRow' = v
    /\ inbox' = IF /\ chans # <<>>
                   /\ chans[Len(chans)].st = "joined"
                   /\ chans[Len(chans)].filter = "u1"
                THEN Append(inbox,
                            [event |-> IF goalsRow = NoRow THEN "INSERT"
                                       ELSE "UPDATE",
                             new |-> v])
                ELSE inbox
    /\ UNCHANGED <<comp, authUser, mounted, fetches, chans, local, delivered,
                   dropped>>
    /\ UNCHANGED notSync

\* The oldest notification arrives at the client.
Deliver ==
    /\ inbox # <<>>
    /\ inbox' = Tail(inbox)
    /\ IF chans[Len(chans)].st = "joined"
       THEN /\ delivered' = delivered + 1
            /\ local' = IF Head(inbox).event \in BoundEvents(comp)
                        THEN OnChange(comp, local, Head(inbox))
                        ELSE local
            /\ UNCHANGED dropped
       ELSE /\ dropped' = dropped + 1
            /\ UNCHANGED <<local, delivered>>
    /\ UNCHANGED <<comp, authUser, goalsRow, mounted, fetches, chans,
                   commits>>
    /\ UNCHANGED notSync

SyncNext ==
    \/ Mount
    \/ \E u \in {NoUser, "u1"} : AuthChange(u)
    \/ Unmount
    \/ Joined
    \/ \E k \in 1..MaxEffects : FetchRead(k)
    \/ \E k \in 1..MaxEffects, ok \in BOOLEAN : FetchReturn(k, ok)
    \/ \E v \in GoalRows : Commit(v)
    \/ Deliver

SyncSpec == SyncInit /\ [][SyncNext]_vars

\* Null, undefined and NaN all show as an unset field.
Unset(v) == IF v.t \in {"undef", "null", "nan"} THEN Null ELSE v

\* The component holds exactly the values of the row.
SameAs(c, loc, row) ==
    \A f \in Holds(c) : Unset(RowView(loc, f)) = Unset(RowView(row, f))

\* C13: once every fetch has returned its data, the channel is joined and no
\* notification is waiting, the goals the component holds are those of the
\* committed row of the signed-in user.
C13_GoalsFresh ==
    (/\ mounted
     /\ authUser # NoUser
     /\ fetches # <<>>
     /\ \A k \in 1..Len(fetches) : fetches[k].st = "done"
     /\ chans[Len(chans)].st = "joined"
     /\ inbox = <<>>)
    => SameAs(comp, local, goalsRow)

\* C14: an insert or update notification handed to the component leaves its
\* state holding exactly the values of the notification's new row.
C14_ReplacedWholesale ==
    [][(delivered' > delivered /\ Head(inbox).event \in {"INSERT", "UPDATE"})
       => SameAs(comp, local', Head(inbox).new)]_vars

\* C15: a channel is cancelled at most once; every channel opened by an
\* earlier run of the effect, and every channel of an unmounted component,
\* has been cancelled exactly once and is closed; and nothing that arrives
\* after the unmount changes the state the component held.
C15_CancelledOnUnmount ==
    /\ [](\A k \in 1..Len(chans) :
            /\ chans[k].cancels <= 1
            /\ (k < Len(chans) \/ ~mounted) =>
                  (chans[k].cancels = 1 /\ chans[k].st = "closed"))
    /\ [][~mounted => local' = local]_vars

\* An unmounted component that had opened two channels, and a notification
\* that arrived after its channel was closed.
C15_Witness ==
    /\ ~mounted
    /\ Len(chans) = 2
    /\ dropped > 0
    /\ \A k \in 1..Len(chans) : chans[k].cancels = 1

(***************************************************************************)
(* Proxy endpoints.  One behaviour follows one request through the handler *)
(* of an API route; the steps are the handler's awaits.                    *)
(*   "chat-process", "chat", "onboarding", "meal-log", "recommendations"   *)
(*       : src/src/pages/api/n8n/<name>.ts                                 *)
(*   "save-chat-data" : src/src/pages/api/save-chat-data.ts                *)
(*   "part_012" : src/unnamed/part_012 (a revision of meal-log.ts)         *)
(*   "part_013" : src/unnamed/part_013 (a revision of onboarding.ts)       *)
(***************************************************************************)
Endpoints == {"chat-process", "chat", "onboarding", "meal-log",
              "recommendations", "save-chat-data", "part_012", "part_013"}

Methods == {"GET", "POST", "PUT", "DELETE", "OPTIONS"}

\* A body is the set of its top-level keys that hold a truthy value.
BodyKeys == {"user_id", "userId", "message", "mealData", "userMessage",
             "botResponse"}

\* if (req.method === 'OPTIONS') return res.status(200).end()
HandlesPreflight(e) == e \in {"chat-process", "chat", "onboarding"}

\* if (req.method !== 'POST') return res.status(405)
MethodAllowed_Any(method) == TRUE

MethodAllowed(method) == method = "POST"

\* process.env.X || 'http://localhost:5678/...'
UrlFallback(e) == e \in {"chat-process", "recommendations", "part_012"}

\* if (!n8nWebhookUrl) return res.status(500)
UrlChecked(e) == e \in {"meal-log", "recommendations", "part_012", "part_013"}

\* The keys the handler tests with !key before it goes on.
RequiredKeys(e) ==
    CASE e \in {"chat-process", "chat"} -> {"user_id", "message"}
      [] e = "onboarding" -> {"user_id"}
      [] e = "save-chat-data" -> {"userId", "userMessage", "botResponse"}
      [] e = "part_012" -> {"userId", "mealData"}
      [] OTHER -> {}

\* The 400 answer carries a details object.
SendsDetails(e) == e \in {"chat-process", "save-chat-data", "part_012"}

FirstAwait(e) ==
    CASE e = "chat-process" -> "profile"
      [] e \in {"chat", "save-chat-data"} -> "insert"
      [] e = "part_012" -> "lookup"
      [] OTHER -> "call"

Response(status, hasDetails, missing) ==
    [status |-> status, hasDetails |-> hasDetails, missing |-> missing]

NoResponse == Response(0, FALSE, {})

ProxyInit ==
    /\ preq \in [endpoint : Endpoints, method : Methods,
                 body : SUBSET BodyKeys, urlSet : BOOLEAN]
    /\ ppc = "received"
    /\ pres = NoResponse
    /\ chatRows = 0
    /\ hookCalls = 0
    /\ downFail = FALSE
    /\ NotProxyIdle

Respond(status, hasDetails, missing) ==
    /\ ppc' = "done"
    /\ pres' = Response(status, hasDetails, missing)

\* The handler up to its first await.
Receive ==
    /\ ppc = "received"
    /\ LET e == preq.endpoint
           missing == RequiredKeys(e) \ preq.body
       IN  IF preq.method = "OPTIONS" /\ HandlesPreflight(e)
           THEN Respond(200, FALSE, {})
           ELSE IF ~MethodAllowed(preq.method)
           THEN Respond(405, FALSE, {})
           ELSE IF UrlChecked(e) /\ ~UrlFallback(e) /\ ~preq.urlSet
           THEN Respond(500, FALSE, {})
           ELSE IF missing # {}
           THEN Respond(400, SendsDetails(e),
                        IF SendsDetails(e) THEN missing ELSE {})
           ELSE IF e = "onboarding" /\ ~preq.urlSet
           THEN Respond(500, FALSE, {})
           ELSE /\ ppc' = FirstAwait(e)
                /\ pres' = pres
    /\ UNCHANGED <<preq, chatRows, hookCalls, downFail>>
    /\ UNCHANGED notProxy

\* chat-process: the user_profiles select answered; an error is logged and
\* the handler goes on without the profile.
ProfileRead(ok) ==
    /\ ppc = "profile"
    /\ ppc' = "call"
    /\ UNCHANGED <<preq, pres, chatRows, hookCalls, downFail>>
    /\ UNCHANGED notProxy

\* part_012: auth.admin.getUserById answered.
UserLookup(ok) ==
    /\ ppc = "lookup"
    /\ IF ok THEN ppc' = "call" /\ pres' = pres
       ELSE Respond(401, FALSE, {})
    /\ UNCHANGED <<preq, chatRows, hookCalls, downFail>>
    /\ UNCHANGED notProxy

\* The call of the external workflow ended: answered 2xx with a JSON body
\* ("ok"), answered non-2xx, answered with a body that is no JSON
\* ("malformed"), or not answered ("down").
WorkflowAnswer(hook) ==
    /\ ppc = "call"
    /\ hookCalls' = hookCalls + 1
    /\ downFail' = (downFail \/ hook # "ok")
    /\ IF hook # "ok" THEN Respond(500, FALSE, {})
       ELSE IF preq.endpoint = "chat-process"
       THEN ppc' = "insert" /\ pres' = pres
       ELSE Respond(200, FALSE, {})
    /\ UNCHANGED <<preq, chatRows>>
    /\ UNCHANGED notProxy

\* The chat_interactions insert answered.  chat-process logs a failed insert
\* and answers 200 all the same.
InsertAnswer(ok) ==
    /\ ppc = "insert"
    /\ chatRows' = IF ok THEN chatRows + 1 ELSE chatRows
    /\ downFail' = (downFail \/ ~ok)
    /\ IF ok \/ preq.endpoint = "chat-process"
       THEN Respond(200, FALSE, {})
       ELSE Respond(500, FALSE, {})
    /\ UNCHANGED <<preq, hookCalls>>
    /\ UNCHANGED notProxy

ProxyNext ==
    \/ Receive
    \/ \E ok \in BOOLEAN : ProfileRead(ok)
    \/ \E ok \in BOOLEAN : UserLookup(ok)
    \/ \E hook \in HookOutcomes \ {"unset"} : WorkflowAnswer(hook)
    \/ \E ok \in BOOLEAN : InsertAnswer(ok)

ProxySpec == ProxyInit /\ [][ProxyNext]_vars

LacksUser(b) == b \cap {"user_id", "userId"} = {}
LacksMessage(e, b) == e \in {"chat", "chat-process"} /\ "message" \notin b

\* C17: a POST that lacks a required field is answered 400 with a details
\* object that names the missing fields, and nothing was stored or sent to
\* the workflow for it (the workflow URL being configured).
C17_MissingFieldIs400 ==
    (/\ ppc = "done"
     /\ preq.method = "POST"
     /\ preq.urlSet
     /\ LacksUser(preq.body) \/ LacksMessage(preq.endpoint, preq.body))
    => (/\ pres.status = 400
        /\ pres.hasDetails
        /\ LacksUser(preq.body) =>
              pres.missing \cap {"user_id", "userId"} # {}
        /\ LacksMessage(preq.endpoint, preq.body) =>
              "message" \in pres.missing
        /\ chatRows = 0
        /\ hookCalls = 0)

\* C18: a request during which the external workflow answered non-2xx or
\* with a malformed body, or a database write failed, is answered with a
\* 5xx status.
C18_FailureIs5xx ==
    (ppc = "done" /\ downFail) => pres.status \in 500..599

\* ---------------------------------------------------------------------
\* Meal logging: the MealLogger form, useMealLogging and logMeal.
\* Quantities are counted in hundredths of a unit, so that the schema's
\* minimum of 0.1 is the integer 10 and 0.05 is the integer 5.
\* ---------------------------------------------------------------------

MaxMealOps == 3
MaxMealSubmits == 2

\* The foods the search, the scanner and the quick-add form offer.
FoodNames == {"apple", "rice"}

\* foodItemSchema.quantity: z.number().min(0.1).
MinQuantity == 10

\* What the quantity input can put in the form.
TypedQuantities == {Num(-100), Num(0), Num(5), Num(10), Num(100), NaN}

\* The quantities handleAddFoodItem receives: 1 from the search and the
\* scanner, and any quantity the quick-add form's own schema accepts.
AddedQuantities == {Num(10), Num(100)}

FoodItem(name, q) == [name |-> name, quantity |-> q]

\* foodItemSchema without the minimum on quantity.
FoodItemOK_NoMinimum(item) ==
    /\ item.name # ""
    /\ item.quantity.t = "num"

\* foodItemSchema: the name is not empty, the quantity is a number (NaN is
\* not) of at least 0.1.  The nutrient fields are copied unchanged from
\* the food that was added and the form has no input for them.
FoodItemOK(item) ==
    /\ item.name # ""
    /\ item.quantity.t = "num"
    /\ item.quantity.n >= MinQuantity

\* mealLogSchema: at least one food item, each one valid.  Meal type,
\* date and time keep their non-empty default values.
MealLogOK(items) ==
    /\ Len(items) >= 1
    /\ \A i \in 1..Len(items) : FoodItemOK(items[i])

\* fields.findIndex(item => item.name === food.name && ...), or 0.
FindIndex(items, name) ==
    IF \E i \in 1..Len(items) : items[i].name = name
    THEN CHOOSE i \in 1..Len(items) : items[i].name = name
    ELSE 0

\* currentQuantity + (food.quantity || 1)
AddQuantity(cur, q) ==
    IF cur.t = "num"
    THEN Num(cur.n + (IF Falsy(q) THEN 100 ELSE q.n))
    ELSE NaN

\* The first request logMeal issues.
FirstRequest == IF logRev = "db" THEN "meal_logs" ELSE "POST"

Request(op, items) == [op |-> op, items |-> items]

MealInit ==
    /\ NotMealIdle
    /\ hookRev \in {"plain", "auth"}
    /\ logRev \in {"db", "post"}
    /\ mealUser \in BOOLEAN
    /\ foodItems = <<>>
    /\ isLogging = FALSE
    /\ mealPc = "idle"
    /\ payload = <<>>
    /\ traffic = <<>>
    /\ rejected = <<>>
    /\ mealOps = 0
    /\ mealRows = <<>>

\* A food is chosen in the search, the scanner or the quick-add form.
handleAddFoodItem(name, q) ==
    /\ mealOps < MaxMealOps
    /\ mealOps' = mealOps + 1
    /\ LET k == FindIndex(foodItems, name) IN
         foodItems' =
           IF k > 0
           THEN [foodItems EXCEPT ![k].quantity = AddQuantity(@, q)]
           ELSE Append(foodItems, FoodItem(name, q))
    /\ UNCHANGED <<hookRev, logRev, mealUser, isLogging, mealPc, payload,
                   traffic, rejected, mealRows>>
    /\ UNCHANGED notMeal

\* The quantity input of one food item changes.
SetQuantity(i, q) ==
    /\ mealOps < MaxMealOps
    /\ i \in 1..Len(foodItems)
    /\ foodItems[i].quantity # q
    /\ mealOps' = mealOps + 1
    /\ foodItems' = [foodItems EXCEPT ![i].quantity = q]
    /\ UNCHANGED <<hookRev, logRev, mealUser, isLogging, mealPc, payload,
                   traffic, rejected, mealRows>>
    /\ UNCHANGED notMeal

\* The delete button of one food item.
RemoveItem(i) ==
    /\ mealOps < MaxMealOps
    /\ i \in 1..Len(foodItems)
    /\ mealOps' = mealOps + 1
    /\ foodItems' = [k \in 1..(Len(foodItems) - 1) |->
                       IF k < i THEN foodItems[k] ELSE foodItems[k + 1]]
    /\ UNCHANGED <<hookRev, logRev, mealUser, isLogging, mealPc, payload,
                   traffic, rejected, mealRows>>
    /\ UNCHANGED notMeal

\* The Log Meal button: handleSubmit runs the resolver; onSubmit calls
\* submitMealLog, which (in the later revision) throws without a user,
\* parses the data again and calls logMeal, which issues its first
\* request.
MealSubmit ==
    /\ mealPc = "idle"
    /\ ~isLogging
    /\ Len(rejected) + Len(traffic) < MaxMealSubmits
    /\ IF ~MealLogOK(foodItems)
       THEN /\ rejected' = Append(rejected, foodItems)
            /\ UNCHANGED <<isLogging, mealPc, payload, traffic>>
       ELSE IF hookRev = "auth" /\ ~mealUser
       THEN /\ rejected' = Append(rejected, <<>>)
            /\ UNCHANGED <<isLogging, mealPc, payload, traffic>>
       ELSE IF ~MealLogOK(foodItems)
       THEN /\ rejected' = Append(rejected, foodItems)
            /\ UNCHANGED <<isLogging, mealPc, payload, traffic>>
       ELSE /\ isLogging' = TRUE
            /\ payload' = foodItems
            /\ mealPc' = FirstRequest
            /\ traffic' = Append(traffic, Request(FirstRequest, foodItems))
            /\ UNCHANGED rejected
    /\ UNCHANGED <<hookRev, logRev, mealUser, foodItems, mealOps, mealRows>>
    /\ UNCHANGED notMeal

\* logMeal throws: submitMealLog's finally clears isLogging and onSubmit
\* keeps the form.
MealFailed ==
    /\ isLogging' = FALSE
    /\ mealPc' = "idle"
    /\ payload' = <<>>
    /\ UNCHANGED <<foodItems, traffic>>

\* logMeal returns: isLogging is cleared and onSubmit resets the form.
MealLogged ==
    /\ isLogging' = FALSE
    /\ mealPc' = "idle"
    /\ payload' = <<>>
    /\ foodItems' = <<>>
    /\ UNCHANGED traffic

\* logMeal goes on to its next request.
MealContinue(op) ==
    /\ mealPc' = op
    /\ traffic' = Append(traffic, Request(op, payload))
    /\ UNCHANGED <<foodItems, isLogging, payload>>

\* The insert into meal_logs answers: with the new row, or an error.
MealLogsInsert(ok) ==
    /\ mealPc = "meal_logs"
    /\ IF ok THEN MealContinue("meal_food_items") ELSE MealFailed
    /\ mealRows' = IF ok THEN Append(mealRows, [items |-> 0]) ELSE mealRows
    /\ UNCHANGED <<hookRev, logRev, mealUser, rejected, mealOps>>
    /\ UNCHANGED notMeal

\* The insert into meal_food_items (rows with the meal_log_id of the row
\* just written) answers.
FoodItemsInsert(ok) ==
    /\ mealPc = "meal_food_items"
    /\ IF ok THEN MealContinue("POST") ELSE MealFailed
    /\ mealRows' = IF ok
                   THEN [mealRows EXCEPT ![Len(mealRows)].items =
                                            Len(payload)]
                   ELSE mealRows
    /\ UNCHANGED <<hookRev, logRev, mealUser, rejected, mealOps>>
    /\ UNCHANGED notMeal

\* The POST to /api/n8n/meal-log answers.
MealLogPost(ok) ==
    /\ mealPc = "POST"
    /\ IF ok THEN MealLogged ELSE MealFailed
    /\ UNCHANGED mealRows
    /\ UNCHANGED <<hookRev, logRev, mealUser, rejected, mealOps>>
    /\ UNCHANGED notMeal

MealNext ==
    \/ \E name \in FoodNames, q \in AddedQuantities :
          handleAddFoodItem(name, q)
    \/ \E i \in 1..2, q \in TypedQuantities : SetQuantity(i, q)
    \/ \E i \in 1..2 : RemoveItem(i)
    \/ MealSubmit
    \/ \E ok \in BOOLEAN : MealLogsInsert(ok)
    \/ \E ok \in BOOLEAN : FoodItemsInsert(ok)
    \/ \E ok \in BOOLEAN : MealLogPost(ok)

MealSpec == MealInit /\ [][MealNext]_vars

\* A food item whose quantity is a number not above zero.
NonPositive(items) ==
    \E i \in 1..Len(items) :
        items[i].quantity.t = "num" /\ items[i].quantity.n <= 0

\* C19: a meal submission containing a food item with quantity <= 0 is
\* rejected by validation and issues no database write and no HTTP
\* request; no request ever issued, and no submission in flight, carries
\* such an item.
C19_QuantityValidated ==
    /\ [](/\ ~NonPositive(payload)
          /\ \A k \in 1..Len(traffic) : ~NonPositive(traffic[k].items))
    /\ [][(MealSubmit /\ NonPositive(foodItems))
            => (/\ rejected' = Append(rejected, foodItems)
                /\ traffic' = traffic
                /\ mealPc' = "idle")]_vars

\* A submission with a quantity <= 0 was rejected, a later valid one went
\* through, and nothing else was sent.
C19_Witness ==
    /\ rejected # <<>>
    /\ NonPositive(rejected[1])
    /\ Len(traffic) = 1
    /\ ~NonPositive(traffic[1].items)

\* C26: every meal_logs row written by logMeal has at least one
\* meal_food_items row once the call has ended, also when it failed.
C26_NoMealWithoutItems ==
    (mealPc = "idle") => \A k \in 1..Len(mealRows) : mealRows[k].items >= 1

\* ---------------------------------------------------------------------
\* Goal setting: the GoalSetting form, goalSettingSchema and the upsert
\* into user_goals.
\* ---------------------------------------------------------------------

MaxGoalOps == 3
MaxGoalSubmits == 2

GoalFormFields ==
    {"targetWeightKg", "targetCalories", "targetProteinRatio",
     "targetCarbsRatio", "targetFatRatio"}

RatioFields == {"targetProteinRatio", "targetCarbsRatio", "targetFatRatio"}

\* z.number().min(lo).max(hi) of each field.
GoalRange(f) ==
    CASE f = "targetWeightKg" -> [lo |-> 20, hi |-> 300]
      [] f = "targetCalories" -> [lo |-> 500, hi |-> 5000]
      [] OTHER -> [lo |-> 0, hi |-> 100]

\* What a number input can put in a field: a typed number, in or out of
\* range, or NaN for an emptied input.
TypedGoalValues(f) ==
    CASE f = "targetWeightKg" -> {Num(70), Num(10), NaN}
      [] f = "targetCalories" -> {Num(2000), Num(100), NaN}
      [] OTHER -> {Num(0), Num(30), Num(40), Num(100), Num(150), NaN}

\* z.number().min(lo).max(hi).optional() on one value.
FieldIssue(f, v) ==
    IF v = Undef THEN "none"
    ELSE IF v.t # "num" THEN "invalid_type"
    ELSE IF v.n < GoalRange(f).lo THEN "too_small"
    ELSE IF v.n > GoalRange(f).hi THEN "too_big"
    ELSE "none"

\* zod stops before the object's refinement when a field has the wrong
\* type; a range issue leaves the object dirty and the refinement runs.
Aborted(data) ==
    \E f \in GoalFormFields : FieldIssue(f, data[f]) = "invalid_type"

\* (x || 0)
OrZero(v) == IF Falsy(v) THEN 0 ELSE v.n

\* totalRatio of the refinement.
totalRatio(data) ==
    OrZero(data.targetProteinRatio) + OrZero(data.targetCarbsRatio)
      + OrZero(data.targetFatRatio)

\* The refinement, had it looked at the sum only when all three ratios are
\* given.
RatiosOK_AllProvided(data) ==
    ~(/\ \A f \in RatioFields : data[f] # Undef
      /\ totalRatio(data) # 100)

\* The refinement of goalSettingSchema.
RatiosOK(data) == ~(totalRatio(data) > 0 /\ totalRatio(data) # 100)

\* The fields the resolver reports, each with its first issue; the
\* refinement's issue has path targetProteinRatio and comes last.
ErrorFields(data) ==
    {f \in GoalFormFields : FieldIssue(f, data[f]) # "none"}
      \cup (IF ~Aborted(data) /\ ~RatiosOK(data)
            THEN {"targetProteinRatio"} ELSE {})

GoalErrors(data) ==
    [f \in ErrorFields(data) |->
        IF FieldIssue(f, data[f]) # "none"
        THEN FieldIssue(f, data[f]) ELSE "custom"]

\* macroSum and showMacroSumWarning of the component.
macroSum(vals) ==
    OrZero(vals.targetProteinRatio) + OrZero(vals.targetCarbsRatio)
      + OrZero(vals.targetFatRatio)

showMacroSumWarning(vals) == macroSum(vals) > 0 /\ macroSum(vals) # 100

\* formState.isDirty
isDirty == goalForm # goalDefaults

\* upsert({ user_id: user.id, ...data }, { onConflict: 'user_id' })
GoalUpsert(data) == [user_id |-> "user", data |-> data]

GoalInit ==
    /\ NotGoalIdle
    /\ disabledProp \in {"honoured", "ignored"}
    /\ goalUser \in BOOLEAN
    /\ goalForm = GoalDefaultValues
    /\ goalDefaults = GoalDefaultValues
    /\ goalErrors = <<>>
    /\ isSavingGoals = FALSE
    /\ goalData = <<>>
    /\ goalWrites = <<>>
    /\ goalOps = 0

\* A number input changes.
SetGoalField(f, v) ==
    /\ goalOps < MaxGoalOps
    /\ goalForm[f] # v
    /\ goalOps' = goalOps + 1
    /\ goalForm' = [goalForm EXCEPT ![f] = v]
    /\ UNCHANGED <<disabledProp, goalUser, goalDefaults, goalErrors,
                   isSavingGoals, goalData, goalWrites>>
    /\ UNCHANGED notGoal

\* The form is submitted: handleSubmit runs the resolver and, when it
\* reports nothing, onSubmit, which returns without a user and otherwise
\* issues the upsert.
GoalSubmit ==
    /\ ~isSavingGoals
    /\ disabledProp = "honoured"
         => isDirty /\ ~showMacroSumWarning(goalForm)
    /\ Len(goalWrites) < MaxGoalSubmits
    /\ goalErrors' = GoalErrors(goalForm)
    /\ IF ErrorFields(goalForm) = {} /\ goalUser
       THEN /\ isSavingGoals' = TRUE
            /\ goalData' = goalForm
            /\ goalWrites' = Append(goalWrites, GoalUpsert(goalForm))
       ELSE UNCHANGED <<isSavingGoals, goalData, goalWrites>>
    /\ UNCHANGED <<disabledProp, goalUser, goalForm, goalDefaults, goalOps>>
    /\ UNCHANGED notGoal

\* The upsert answers: reset(data) on success, the form kept on error.
GoalUpsertAnswer(ok) ==
    /\ isSavingGoals
    /\ isSavingGoals' = FALSE
    /\ goalData' = <<>>
    /\ IF ok
       THEN /\ goalForm' = goalData
            /\ goalDefaults' = goalData
            /\ goalErrors' = <<>>
       ELSE UNCHANGED <<goalForm, goalDefaults, goalErrors>>
    /\ UNCHANGED <<disabledProp, goalUser, goalWrites, goalOps>>
    /\ UNCHANGED notGoal

GoalNext ==
    \/ \E f \in GoalFormFields :
         \E v \in TypedGoalValues(f) : SetGoalField(f, v)
    \/ GoalSubmit
    \/ \E ok \in BOOLEAN : GoalUpsertAnswer(ok)

GoalSpec == GoalInit /\ [][GoalNext]_vars

\* Every field is unset or a number within its range.
FieldsValid(vals) ==
    \A f \in GoalFormFields : FieldIssue(f, vals[f]) = "none"

\* The sum of the ratios that are set.
RatioSum(vals) ==
    (IF vals.targetProteinRatio.t = "num"
     THEN vals.targetProteinRatio.n ELSE 0)
    + (IF vals.targetCarbsRatio.t = "num"
       THEN vals.targetCarbsRatio.n ELSE 0)
    + (IF vals.targetFatRatio.t = "num" THEN vals.targetFatRatio.n ELSE 0)

AllProvided(vals) == \A f \in RatioFields : vals[f] # Undef

\* A submission by a signed-in user of a form whose fields are each valid.
GoalSubmission == GoalSubmit /\ goalUser /\ FieldsValid(goalForm)

\* C20 (as stated): when the three ratios are all provided and do not sum
\* to 100, the submission is rejected with a single error on a ratio field
\* and nothing is written; when they sum to 100, or when some ratio is
\* left unset, the submission goes through to the upsert.
C20_RatioSumRejected ==
    [][GoalSubmission =>
        /\ (AllProvided(goalForm) /\ RatioSum(goalForm) # 100)
             => (/\ Cardinality(DOMAIN goalErrors') = 1
                 /\ DOMAIN goalErrors' \subseteq RatioFields
                 /\ goalWrites' = goalWrites)
        /\ (RatioSum(goalForm) = 100 \/ ~AllProvided(goalForm))
             => goalWrites' = Append(goalWrites, GoalUpsert(goalForm))]_vars

\* C20 (amended): when the ratios that are set sum to more than 0 and not
\* to 100, whether or not all three are set, the submission is rejected
\* with a single error, attached to the protein ratio, and nothing is
\* written; when they sum to 100 or to 0, the submission goes through to
\* the upsert.
C20_RatioSumChecked ==
    [][GoalSubmission =>
        /\ (RatioSum(goalForm) > 0 /\ RatioSum(goalForm) # 100)
             => (/\ DOMAIN goalErrors' = {"targetProteinRatio"}
                 /\ goalErrors'["targetProteinRatio"] = "custom"
                 /\ goalWrites' = goalWrites
                 /\ ~isSavingGoals')
        /\ RatioSum(goalForm) \in {0, 100}
             => (/\ DOMAIN goalErrors' = {}
                 /\ goalWrites' = Append(goalWrites, GoalUpsert(goalForm))
                 /\ isSavingGoals')]_vars

\* Ratios summing to 100 were upserted, and a later submission with one
\* ratio set to 30 and another left unset was rejected on the protein
\* ratio.
C20_Witness ==
    /\ goalUser
    /\ Len(goalWrites) = 1
    /\ RatioSum(goalWrites[1].data) = 100
    /\ FieldsValid(goalForm)
    /\ ~AllProvided(goalForm)
    /\ RatioSum(goalForm) = 30
    /\ DOMAIN goalErrors = {"targetProteinRatio"}
    /\ goalErrors["targetProteinRatio"] = "custom"

\* ---------------------------------------------------------------------
\* Work hours: the UserProfile form (per-day hours) and the onboarding
\* form of part_006 (start, end and ticked days), and the work_hours
\* column they write.  Hours are counted in half hours, the step of the
\* inputs: 16 is 8 h, 15 is 7.5 h; work_hours is in whole hours.
\* ---------------------------------------------------------------------

MaxHourEdits == 3
MaxProfileSaves == 2

Days == {"monday", "tuesday", "wednesday", "thursday", "friday",
         "saturday", "sunday"}

\* What a work-hour input can hold after typing: 8 h, 6 h, 7.5 h, or NaN
\* for an emptied input.
TypedHours == {Num(16), Num(12), Num(15), NaN}

\* The times the start and end inputs can hold: 09:00, 13:00, 17:00, or
\* the empty string (an Invalid Date, whose getTime() is NaN).
TypedTimes == {Num(18), Num(26), Num(34), NaN}

\* The work_hours a user's row can hold when the form loads; Null is no
\* row.
StoredHours == {Null, Num(0), Num(7), Num(8)}

RECURSIVE SumHours(_, _)
\* validHours.reduce((a, b) => a + b, 0)
SumHours(hours, ds) ==
    IF ds = {} THEN 0
    ELSE LET d == CHOOSE x \in ds : TRUE
         IN  hours[d].n + SumHours(hours, ds \ {d})

\* The days that pass the filter: not undefined, not null, not NaN.
ValidDays(hours) == {d \in Days : hours[d].t = "num"}

\* Math.round(x / y) for y > 0, x and y integers.
RoundDiv(x, y) == (2 * x + y) \div (2 * y)

\* calculateAverageHours of UserProfile.tsx.
calculateAverageHours(hours) ==
    IF ValidDays(hours) = {} THEN Num(0)
    ELSE Num(RoundDiv(SumHours(hours, ValidDays(hours)),
                      2 * Cardinality(ValidDays(hours))))

\* calculateAverageWorkHours of part_006.
calculateAverageWorkHours(start, end, days) ==
    IF days = {} THEN Num(0)
    ELSE IF start = NaN \/ end = NaN THEN NaN
    ELSE Num(RoundDiv((end.n - start.n) * Cardinality(days), 2 * 7))

\* workHours of userProfileSchema: each day unset or an integer 0..24.
WorkHoursOK(hours) ==
    \A d \in Days :
        \/ hours[d] = Undef
        \/ hours[d].t = "num" /\ hours[d].n % 2 = 0
             /\ hours[d].n >= 0 /\ hours[d].n <= 48

NoHours == [d \in Days |-> Undef]

\* The per-day hours a submission of part_006 stands for: end - start on
\* each ticked day.
DraftHours(start, end, days) ==
    [d \in Days |->
        IF d \notin days THEN Undef
        ELSE IF start = NaN \/ end = NaN THEN NaN
        ELSE Num(end.n - start.n)]

ProfileInit ==
    /\ NotProfileIdle
    /\ \E rev \in {"profile", "draft"}, h \in StoredHours :
         profile = [rev |-> rev,
                    pc |-> IF rev = "profile" THEN "loading" ELSE "ready",
                    stored |-> IF rev = "profile" THEN h ELSE Null,
                    loaded |-> Null,
                    dayHours |-> NoHours,
                    averageHours |-> Num(0),
                    start |-> NaN, end |-> NaN, days |-> {},
                    dirty |-> FALSE,
                    hourEdits |-> 0,
                    written |-> <<>>]

\* fetchUserProfile answers: .single() is an error without a row; with a
\* row the form is reset, every day undefined and average_hours the
\* row's work_hours.
LoadProfile ==
    /\ profile.pc = "loading"
    /\ profile' =
         IF profile.stored = Null
         THEN [profile EXCEPT !.pc = "ready"]
         ELSE [profile EXCEPT !.pc = "ready",
                              !.loaded = profile.stored,
                              !.dayHours = NoHours,
                              !.averageHours =
                                 IF Falsy(profile.stored) THEN Num(0)
                                 ELSE profile.stored]
    /\ UNCHANGED notProfile

\* The hours input of one day changes.
SetDayHours(d, v) ==
    /\ profile.rev = "profile"
    /\ profile.pc \in {"ready", "saving"}
    /\ profile.hourEdits < MaxHourEdits
    /\ profile.dayHours[d] # v
    /\ LET hours == [profile.dayHours EXCEPT ![d] = v] IN
         profile' = [profile EXCEPT !.dayHours = hours,
                                    !.averageHours =
                                       calculateAverageHours(hours),
                                    !.dirty = TRUE,
                                    !.hourEdits = @ + 1]
    /\ UNCHANGED notProfile

\* The start or end time input of part_006 changes.
SetWorkTime(field, v) ==
    /\ profile.rev = "draft"
    /\ profile.pc \in {"ready", "saving"}
    /\ profile.hourEdits < MaxHourEdits
    /\ profile[field] # v
    /\ profile' = [profile EXCEPT ![field] = v, !.dirty = TRUE,
                                  !.hourEdits = @ + 1]
    /\ UNCHANGED notProfile

\* A work-day checkbox of part_006 is ticked or cleared.
ToggleDay(d) ==
    /\ profile.rev = "draft"
    /\ profile.pc \in {"ready", "saving"}
    /\ profile.hourEdits < MaxHourEdits
    /\ profile' = [profile EXCEPT
                     !.days = IF d \in @ THEN @ \ {d} ELSE @ \cup {d},
                     !.dirty = TRUE,
                     !.hourEdits = @ + 1]
    /\ UNCHANGED notProfile

\* Another field of the form is edited (and the form left valid).
EditOtherField ==
    /\ profile.pc = "ready"
    /\ ~profile.dirty
    /\ profile' = [profile EXCEPT !.dirty = TRUE]
    /\ UNCHANGED notProfile

\* The Save button (enabled once the form is dirty): the resolver, then
\* onSubmit computes work_hours and issues the upsert.
SaveProfile ==
    /\ profile.pc = "ready"
    /\ profile.dirty
    /\ Len(profile.written) < MaxProfileSaves
    /\ IF profile.rev = "profile"
       THEN /\ WorkHoursOK(profile.dayHours)
            /\ profile' =
                 [profile EXCEPT
                    !.pc = "saving",
                    !.written = Append(@,
                       [perDay |-> profile.dayHours,
                        work_hours |->
                           calculateAverageHours(profile.dayHours)])]
       ELSE /\ profile.days # {}
            /\ profile' =
                 [profile EXCEPT
                    !.pc = "saving",
                    !.written = Append(@,
                       [perDay |-> DraftHours(profile.start, profile.end,
                                              profile.days),
                        work_hours |->
                           calculateAverageWorkHours(profile.start,
                              profile.end, profile.days)])]
    /\ UNCHANGED notProfile

\* The upsert answers; a NaN work_hours is sent, and stored, as null.
ProfileSaved(ok) ==
    /\ profile.pc = "saving"
    /\ profile' =
         IF ok
         THEN [profile EXCEPT
                 !.pc = "saved",
                 !.stored =
                    LET w == profile.written[Len(profile.written)]
                    IN  IF w.work_hours = NaN THEN Null ELSE w.work_hours]
         ELSE [profile EXCEPT !.pc = "ready"]
    /\ UNCHANGED notProfile

ProfileNext ==
    \/ LoadProfile
    \/ \E d \in Days, v \in TypedHours : SetDayHours(d, v)
    \/ \E field \in {"start", "end"}, v \in TypedTimes : SetWorkTime(field, v)
    \/ \E d \in Days : ToggleDay(d)
    \/ EditOtherField
    \/ SaveProfile
    \/ \E ok \in BOOLEAN : ProfileSaved(ok)

ProfileSpec == ProfileInit /\ [][ProfileNext]_vars

\* C21: the work_hours of every write whose per-day hours are numbers
\* or unset is round(sum of the per-day hours that are set / number of
\* set days), and 0 when no day is set.
C21_AverageOfSetDays ==
    \A k \in 1..Len(profile.written) :
        LET w == profile.written[k]
            ds == {d \in Days : w.perDay[d] # Undef}
            n == Cardinality(ds)
        IN  (\A d \in ds : w.perDay[d].t = "num") =>
              IF n = 0 THEN w.work_hours = Num(0)
              ELSE /\ w.work_hours.t = "num"
                   /\ (2 * w.work_hours.n - 1) * n
                         <= SumHours(w.perDay, ds)
                   /\ SumHours(w.perDay, ds)
                         < (2 * w.work_hours.n + 1) * n

\* C28: a profile that was loaded and saved without a change to any
\* work-hour input is written with the work_hours that was loaded.
C28_WorkHoursKept ==
    (/\ profile.rev = "profile"
     /\ profile.loaded # Null
     /\ profile.hourEdits = 0
     /\ profile.written # <<>>)
    => profile.written[1].work_hours = profile.loaded

\* ---------------------------------------------------------------------
\* The onboarding submission and the /api/n8n/onboarding route, again.
\* ---------------------------------------------------------------------

\* C22: a submission whose writes succeeded and whose notification reaches
\* a healthy workflow (the network up, the workflow answering 2xx) is
\* completed: the body sent by triggerOnboarding passes the route's
\* required-field check and is forwarded.
C22_HealthyReachesComplete ==
    [][\A k \in 1..Len(subs) :
         (subs[k].pc = "notify" /\ NotifyResp(k, "ok", "ok"))
            => (/\ subs'[k].result = "complete"
                /\ "user_id" \in OnboardingBody(impl)
                     \/ route # "strict")]_vars

\* C24: in the revision of part_006, when Next succeeds at step 2 (after
\* it succeeded at step 1), the only fields the full-schema validation of
\* the final submit can still reject are those shown at step 3.
C24_StepsCoverSchema ==
    [][(impl = "draft" /\ handleNextStep /\ step = 2 /\ step' = 3)
         => SchemaIssues(impl, form) \subseteq ShownAt(3)]_vars

\* ---------------------------------------------------------------------
\* The goals held by the App shell across a change of user.  Every row of
\* the model is a row of user "u1".
\* ---------------------------------------------------------------------

\* C23: the goals the App shell holds are those of the signed-in user or
\* empty: with nobody signed in it holds no goals, whatever fetch answer
\* or notification arrives late.
C23_GoalsOfCurrentUser ==
    (comp = "App" /\ mounted /\ authUser = NoUser) => local = NoRow

\* ---------------------------------------------------------------------
\* Signing in: AuthProvider, the App shell's onboarding-status effect and
\* the login form.
\*   boot.effect    the status effect is due to run (a dependency changed)
\*   boot.checks    user_profiles queries of the effect in flight
\*   login.pc       "idle", "signIn" (signInWithPassword awaited), or
\*                  "user" / "error" (signIn returned, onSubmit resumes)
\* ---------------------------------------------------------------------

MaxLogins == 2

\* Revisions of the login form.
LoginRevs == {"part_004", "LoginForm.tsx"}

\* Credentials typed in the form: the hard-coded test pair, other
\* credentials that pass loginSchema, and credentials that do not.
Credentials == {"test", "other", "invalid"}

\* The branch of onSubmit that succeeds without calling signIn.
TestLogin(rev, creds) == rev = "part_004" /\ creds = "test"

AuthInit ==
    /\ NotAuthIdle
    /\ boot = [pc |-> "on", user |-> NoUser, isLoading |-> TRUE,
               isAuthReady |-> FALSE, isLoadingOnboardingStatus |-> TRUE,
               currentView |-> "login", effect |-> TRUE, checks |-> 0]
    /\ \E rev \in LoginRevs :
         login = [pc |-> "idle", rev |-> rev, submits |-> 0,
                  successes |-> 0, users |-> 0]

\* getInitialSession / the first auth event: the session is known.
AuthReady(u) ==
    /\ ~boot.isAuthReady
    /\ boot' = [boot EXCEPT !.user = u, !.isLoading = FALSE,
                            !.isAuthReady = TRUE, !.effect = TRUE]
    /\ UNCHANGED login
    /\ UNCHANGED notAuth

\* The effect with checkOnboardingStatus runs after a render in which one
\* of user, isLoading, isAuthReady changed.
checkOnboardingStatus ==
    /\ boot.effect
    /\ boot' =
         IF ~boot.isAuthReady \/ boot.isLoading
         THEN [boot EXCEPT !.effect = FALSE]
         ELSE IF boot.user # NoUser
         THEN [boot EXCEPT !.effect = FALSE,
                           !.isLoadingOnboardingStatus = TRUE,
                           !.checks = @ + 1]
         ELSE [boot EXCEPT !.effect = FALSE,
                           !.currentView = "login",
                           !.isLoadingOnboardingStatus = FALSE]
    /\ UNCHANGED login
    /\ UNCHANGED notAuth

\* The user_profiles query of the effect answers: the dashboard, or the
\* login view after an error; finally clears the flag.
StatusAnswer(ok) ==
    /\ boot.checks > 0
    /\ boot' = [boot EXCEPT !.checks = @ - 1,
                            !.currentView = IF ok THEN "dashboard"
                                            ELSE "login",
                            !.isLoadingOnboardingStatus = FALSE]
    /\ UNCHANGED login
    /\ UNCHANGED notAuth

\* renderContent shows the login form.
LoginShown ==
    /\ ~boot.isLoading
    /\ ~boot.isLoadingOnboardingStatus
    /\ boot.user = NoUser

\* handleLoginSuccess
handleLoginSuccess(b) == [b EXCEPT !.isLoadingOnboardingStatus = TRUE]

\* The Login button: the resolver, then onSubmit up to its first await.
LoginSubmit(creds) ==
    /\ LoginShown
    /\ login.pc = "idle"
    /\ login.submits < MaxLogins
    /\ IF creds = "invalid"
       THEN /\ login' = [login EXCEPT !.submits = @ + 1]
            /\ UNCHANGED boot
       ELSE IF TestLogin(login.rev, creds)
       THEN /\ login' = [login EXCEPT !.submits = @ + 1,
                                      !.successes = @ + 1]
            /\ boot' = handleLoginSuccess(boot)
       ELSE /\ login' = [login EXCEPT !.submits = @ + 1, !.pc = "signIn"]
            /\ boot' = [boot EXCEPT !.isLoading = TRUE, !.effect = TRUE]
    /\ UNCHANGED notAuth

\* signInWithPassword answers: with a user, the auth listener stores it;
\* signIn's finally clears isLoading and signIn returns.
SignInAnswer(ok) ==
    /\ login.pc = "signIn"
    /\ login' = [login EXCEPT !.pc = IF ok THEN "user" ELSE "error",
                              !.users = IF ok THEN @ + 1 ELSE @]
    /\ boot' = [boot EXCEPT !.user = IF ok THEN "u1" ELSE @,
                            !.isLoading = FALSE, !.effect = TRUE]
    /\ UNCHANGED notAuth

\* onSubmit resumes after await signIn(data).
LoginResume ==
    /\ login.pc \in {"user", "error"}
    /\ IF login.pc = "user"
       THEN /\ login' = [login EXCEPT !.pc = "idle", !.successes = @ + 1]
            /\ boot' = handleLoginSuccess(boot)
       ELSE /\ login' = [login EXCEPT !.pc = "idle"]
            /\ UNCHANGED boot
    /\ UNCHANGED notAuth

\* signOut: the auth listener clears the user.
SignOut ==
    /\ boot.isAuthReady
    /\ boot.user # NoUser
    /\ ~boot.isLoading
    /\ ~boot.isLoadingOnboardingStatus
    /\ login.pc = "idle"
    /\ boot' = [boot EXCEPT !.user = NoUser, !.effect = TRUE]
    /\ UNCHANGED login
    /\ UNCHANGED notAuth

AuthNext ==
    \/ \E u \in {NoUser, "u1"} : AuthReady(u)
    \/ checkOnboardingStatus
    \/ \E ok \in BOOLEAN : StatusAnswer(ok)
    \/ \E creds \in Credentials : LoginSubmit(creds)
    \/ \E ok \in BOOLEAN : SignInAnswer(ok)
    \/ LoginResume
    \/ SignOut

AuthSpec == AuthInit /\ [][AuthNext]_vars

\* Something that clears isLoadingOnboardingStatus is still to happen: the
\* session is not known yet, the status effect is due, or a status query
\* is in flight.  No action changes a state with the flag set and none of
\* these: the form and the dashboard are hidden behind the spinner.
ClearingPending ==
    \/ ~boot.isAuthReady
    \/ boot.effect
    \/ boot.checks > 0

\* C25: the 'Initializing application...' state is always left again:
\* while isLoadingOnboardingStatus is true a status check that clears it
\* is due or running, so the flag does not stay true forever.
C25_LoadingLeft == boot.isLoadingOnboardingStatus => ClearingPending

\* C29: the login form reports success (message and onSuccess) only when
\* signIn has returned an authenticated user for the submission.
C29_SuccessOnlyAfterSignIn ==
    [][login.successes' > login.successes => login.pc = "user"]_vars

\* ---------------------------------------------------------------------
\* The chat widget (ChatBot of Dashboard.tsx).
\*   chat.messages   the displayed list
\*   chat.sends      the calls of handleSendMessage, each with the list it
\*                   closed over (base) and the await it stands at:
\*                   "saveUser", "webhook", "saveBot", then "done"
\* ---------------------------------------------------------------------

MaxSends == 2

TypedMessages == {"", " ", "apple", "rice "}

\* String.prototype.trim on the typed texts.
TrimText(x) ==
    CASE x = " " -> ""
      [] x = "rice " -> "rice"
      [] OTHER -> x

UserMessage(x) == [text |-> x, isBot |-> FALSE]

BotMessage(x) == [text |-> x, isBot |-> TRUE]

ErrorMessage == BotMessage("Sorry, I encountered an error. Please try again.")

\* newMessages of a call
newMessages(send) == Append(send.base, UserMessage(send.text))

ChatInit ==
    /\ NotChatIdle
    /\ \E u \in {NoUser, "u1"} :
         chat = [pc |-> "on", user |-> u, messages |-> <<>>,
                 inputMessage |-> "", isProcessing |-> FALSE,
                 sends |-> <<>>]

\* The input's onChange.
TypeMessage(x) ==
    /\ chat.inputMessage # x
    /\ chat' = [chat EXCEPT !.inputMessage = x]
    /\ UNCHANGED notChat

\* Enter in the input (at any time) or the Send button (not while
\* isProcessing): handleSendMessage up to its first await.
handleSendMessage ==
    /\ Len(chat.sends) < MaxSends
    /\ IF TrimText(chat.inputMessage) = "" \/ chat.user = NoUser
       THEN UNCHANGED chat
       ELSE chat' = [chat EXCEPT
                       !.inputMessage = "",
                       !.isProcessing = TRUE,
                       !.sends = Append(@, [stage |-> "saveUser",
                                            text |-> TrimText(chat.inputMessage),
                                            base |-> chat.messages])]
    /\ UNCHANGED notChat

\* catch and finally of call k
SendFailed(k) ==
    [chat EXCEPT !.messages = Append(chat.sends[k].base, ErrorMessage),
                 !.isProcessing = FALSE,
                 !.sends[k].stage = "done"]

\* The chat_interactions insert of the user's message answers.
UserMessageSaved(k, ok) ==
    /\ k \in 1..Len(chat.sends)
    /\ chat.sends[k].stage = "saveUser"
    /\ chat' = IF ok
               THEN [chat EXCEPT !.messages = newMessages(chat.sends[k]),
                                 !.sends[k].stage = "webhook"]
               ELSE SendFailed(k)
    /\ UNCHANGED notChat

\* The webhook answers: a usable message, or a failure (not ok, or no
\* message string in the body).
WebhookAnswer(k, ok) ==
    /\ k \in 1..Len(chat.sends)
    /\ chat.sends[k].stage = "webhook"
    /\ chat' = IF ok
               THEN [chat EXCEPT !.sends[k].stage = "saveBot"]
               ELSE SendFailed(k)
    /\ UNCHANGED notChat

\* The chat_interactions insert of the bot's message answers.
BotMessageSaved(k, ok) ==
    /\ k \in 1..Len(chat.sends)
    /\ chat.sends[k].stage = "saveBot"
    /\ chat' = IF ok
               THEN [chat EXCEPT
                       !.messages = Append(newMessages(chat.sends[k]),
                                           BotMessage("reply")),
                       !.isProcessing = FALSE,
                       !.sends[k].stage = "done"]
               ELSE SendFailed(k)
    /\ UNCHANGED notChat

ChatNext ==
    \/ \E x \in TypedMessages : TypeMessage(x)
    \/ handleSendMessage
    \/ \E k \in 1..MaxSends, ok \in BOOLEAN : UserMessageSaved(k, ok)
    \/ \E k \in 1..MaxSends, ok \in BOOLEAN : WebhookAnswer(k, ok)
    \/ \E k \in 1..MaxSends, ok \in BOOLEAN : BotMessageSaved(k, ok)

ChatSpec == ChatInit /\ [][ChatNext]_vars

\* The displayed list after a step extends the list before it.
Extends(after, before) ==
    /\ Len(after) >= Len(before)
    /\ SubSeq(after, 1, Len(before)) = before

\* C27: the displayed message list only grows: no step removes a message
\* that was displayed.
C27_MessagesOnlyGrow ==
    [][chat.pc = "on" => Extends(chat'.messages, chat.messages)]_vars

====
